---- MODULE Spec2Model ----
(***************************************************************************)
(* BORME bulletin parser (borme_batch_parser.py) and the company-name      *)
(* normalizer used for matching (borme_placsp_match.py).                   *)
(*                                                                         *)
(* A Python str is a sequence of characters; a character is a string       *)
(* naming one code point.  ASCII characters name themselves, and the       *)
(* accented letters are written in ASCII: "A'" "E'" "I'" "O'" "U'" are the *)
(* acute capitals, "a'" "e'" "i'" "o'" "u'" the acute small letters,       *)
(* "N~" and "n~" are N and n with tilde, "E^" is E with grave accent.       *)
(* Offsets are Python offsets:                                             *)
(* offset p lies before character s[p+1].                                  *)
(***************************************************************************)
EXTENDS Integers, Sequences, FiniteSets, TLC

(***************************************************************************)
(* Character classes of Python 3 str patterns, cut to the model alphabet.  *)
(***************************************************************************)
AsciiUpper ==
    {"A","B","C","D","E","F","G","H","I","J","K","L","M",
     "N","O","P","Q","R","S","T","U","V","W","X","Y","Z"}

AsciiLower ==
    {"a","b","c","d","e","f","g","h","i","j","k","l","m",
     "n","o","p","q","r","s","t","u","v","w","x","y","z"}

AccentUpper == {"A'","E'","I'","O'","U'"}

AccentLower == {"a'","e'","i'","o'","u'"}

Digit == {"0","1","2","3","4","5","6","7","8","9"}

\* \s
Space == {" ", "\n", "\t", "\r", "\f"}

\* \w
WordChar ==
    AsciiUpper \cup AsciiLower \cup AccentUpper \cup AccentLower
        \cup {"N~","n~","E^"} \cup Digit \cup {"_"}

(***************************************************************************)
(* str methods                                                             *)
(***************************************************************************)
\* s[a:b] for offsets 0 <= a, b
Slice(s, a, b) ==
    LET hi == IF b > Len(s) THEN Len(s) ELSE b
    IN  IF a >= hi THEN <<>> ELSE SubSeq(s, a + 1, hi)

\* s.lstrip(cs): s from its first character outside cs
LStripSet(s, cs) ==
    LET keep == {k \in 1..Len(s) : s[k] \notin cs}
    IN  IF keep = {} THEN <<>>
        ELSE SubSeq(s, CHOOSE k \in keep : \A j \in keep : k <= j, Len(s))

\* s.rstrip(cs): s up to its last character outside cs
RStripSet(s, cs) ==
    LET keep == {k \in 1..Len(s) : s[k] \notin cs}
    IN  IF keep = {} THEN <<>>
        ELSE SubSeq(s, 1, CHOOSE k \in keep : \A j \in keep : j <= k)

\* s.strip()
Strip(s) == RStripSet(LStripSet(s, Space), Space)

\* s.startswith(p) at offset a
StartsAt(s, p, a) ==
    /\ a + Len(p) <= Len(s)
    /\ \A k \in 1..Len(p) : s[a + k] = p[k]

StartsWith(s, p) == StartsAt(s, p, 0)

EndsWith(s, p) == Len(p) <= Len(s) /\ StartsAt(s, p, Len(s) - Len(p))

\* p in s
Contains(s, p) == \E a \in 0..(Len(s) - Len(p)) : StartsAt(s, p, a)

\* s.find(p, a): the least offset >= a where p occurs, -1 if none
Find(s, p, a) ==
    LET hits == {b \in a..(Len(s) - Len(p)) : StartsAt(s, p, b)}
    IN  IF hits = {} THEN -1
        ELSE CHOOSE b \in hits : \A c \in hits : b <= c

\* s.rfind(p): the greatest offset where p occurs, -1 if none
RFind(s, p) ==
    LET hits == {a \in 0..(Len(s) - Len(p)) : StartsAt(s, p, a)}
    IN  IF hits = {} THEN -1
        ELSE CHOOSE a \in hits : \A b \in hits : b <= a

\* s.replace(p, r), p not empty
RECURSIVE Replace(_, _, _)
Replace(s, p, r) ==
    LET a == Find(s, p, 0)
    IN  IF a = -1 THEN s
        ELSE Slice(s, 0, a) \o r \o Replace(Slice(s, a + Len(p), Len(s)), p, r)

\* s.split(c) for a one-character separator: a non-empty sequence of strings
SplitChar(s, c) ==
    LET seps == {k \in 1..Len(s) : s[k] = c}
        \* the position of separator j; 0 and Len(s) + 1 bound the string
        At(j) == IF j = 0 THEN 0
                 ELSE IF j > Cardinality(seps) THEN Len(s) + 1
                 ELSE CHOOSE p \in seps : Cardinality({q \in seps : q < p}) = j - 1
    IN  [j \in 1..(Cardinality(seps) + 1) |-> SubSeq(s, At(j - 1) + 1, At(j) - 1)]

\* sep.join(parts)
RECURSIVE Join(_, _)
Join(parts, sep) ==
    IF parts = <<>> THEN <<>>
    ELSE IF Len(parts) = 1 THEN parts[1]
    ELSE parts[1] \o sep \o Join(Tail(parts), sep)

\* c.upper() for one character of the model alphabet
UpperChar(c) ==
    CASE c = "a" -> "A" [] c = "b" -> "B" [] c = "c" -> "C" [] c = "d" -> "D"
      [] c = "e" -> "E" [] c = "f" -> "F" [] c = "g" -> "G" [] c = "h" -> "H"
      [] c = "i" -> "I" [] c = "j" -> "J" [] c = "k" -> "K" [] c = "l" -> "L"
      [] c = "m" -> "M" [] c = "n" -> "N" [] c = "o" -> "O" [] c = "p" -> "P"
      [] c = "q" -> "Q" [] c = "r" -> "R" [] c = "s" -> "S" [] c = "t" -> "T"
      [] c = "u" -> "U" [] c = "v" -> "V" [] c = "w" -> "W" [] c = "x" -> "X"
      [] c = "y" -> "Y" [] c = "z" -> "Z"
      [] c = "a'" -> "A'" [] c = "e'" -> "E'" [] c = "i'" -> "I'"
      [] c = "o'" -> "O'" [] c = "u'" -> "U'" [] c = "n~" -> "N~"
      [] OTHER -> c

\* s.upper()
Upper(s) == [k \in 1..Len(s) |-> UpperChar(s[k])]

(***************************************************************************)
(* The re module: a backtracking matcher.  A pattern is a tree of records. *)
(* A thread is one way of matching a pattern up to some offset:            *)
(*   e  the offset reached,                                                *)
(*   g  the spans of the groups closed so far, in closing order,           *)
(*   o  the start offsets of the groups still open,                        *)
(*   k  the choices taken so far, each a number that is smaller the        *)
(*      earlier Python tries the choice (greedy: longest first, lazy:      *)
(*      shortest first, alternatives left to right).                       *)
(* Run gives every thread that matches a pattern from a set of threads;    *)
(* the match Python returns is the thread it reaches first, the one whose  *)
(* choices are least in dictionary order.                                  *)
(***************************************************************************)
\* [...] and single characters
In(cs) == [t |-> "in", cs |-> cs]

\* [^...]
NotIn(cs) == [t |-> "notin", cs |-> cs]

\* . without DOTALL
Dot == [t |-> "notin", cs |-> {"\n"}]

\* . with DOTALL
DotAll == [t |-> "notin", cs |-> {}]

\* r1 r2 ... rn
Cat(rs) == [t |-> "cat", rs |-> rs]

\* r1 | r2 | ... | rn
Alt(rs) == [t |-> "alt", rs |-> rs]

\* r{lo,hi} greedy; hi = -1 is no upper limit
Rep(r, lo, hi) == [t |-> "rep", r |-> r, lo |-> lo, hi |-> hi, greedy |-> TRUE]

\* r{lo,hi}? lazy
RepLazy(r, lo, hi) == [t |-> "rep", r |-> r, lo |-> lo, hi |-> hi, greedy |-> FALSE]

\* r* r+ r?
Star(r) == Rep(r, 0, -1)

Plus(r) == Rep(r, 1, -1)

Opt(r) == Rep(r, 0, 1)

\* ( r )
Grp(r) == [t |-> "grp", r |-> r]

\* ^ with re.MULTILINE
BolM == [t |-> "bolm"]

\* $ without re.MULTILINE: at the end, or before a newline that ends the string
Eol == [t |-> "eol"]

\* \b
WordB == [t |-> "wordb"]

\* (?<=[...]) one character wide
Behind(cs) == [t |-> "behind", cs |-> cs]

\* (?<=c1 c2) two characters wide
Behind2(cs1, cs2) == [t |-> "behind2", cs1 |-> cs1, cs2 |-> cs2]

\* (?= r )
Ahead(r) == [t |-> "ahead", r |-> r]

\* a literal string
Lit(p) == [t |-> "lit", p |-> p]

IsWordAt(s, k) == k >= 1 /\ k <= Len(s) /\ s[k] \in WordChar

\* does the one-character pattern r accept the character c
Accepts(r, c) == IF r.t = "in" THEN c \in r.cs ELSE c \notin r.cs

\* how many characters from offset e on the one-character pattern r accepts
\* in a row, at most hi of them when hi >= 0
RunLength(r, s, e, hi) ==
    LET most == IF hi >= 0 /\ hi < Len(s) - e THEN hi ELSE Len(s) - e
        stops == {j \in 1..most : ~Accepts(r, s[e + j])}
    IN  IF stops = {} THEN most
        ELSE (CHOOSE j \in stops : \A k \in stops : j <= k) - 1

\* the thread th after the choice numbered c
Chose(th, c) == [th EXCEPT !.k = Append(@, c)]

RECURSIVE Run(_, _, _)
Run(r, s, T) ==
    IF T = {} THEN {}
    ELSE
    CASE r.t \in {"in", "notin"} ->
            {[th EXCEPT !.e = @ + 1] :
                th \in {x \in T : x.e < Len(s) /\ Accepts(r, s[x.e + 1])}}
      [] r.t = "lit" ->
            {[th EXCEPT !.e = @ + Len(r.p)] :
                th \in {x \in T : StartsAt(s, r.p, x.e)}}
      [] r.t = "cat" ->
            \* the first half of the patterns, then the second half
            IF Len(r.rs) = 0 THEN T
            ELSE IF Len(r.rs) = 1 THEN Run(r.rs[1], s, T)
            ELSE Run(Cat(SubSeq(r.rs, Len(r.rs) \div 2 + 1, Len(r.rs))), s,
                     Run(Cat(SubSeq(r.rs, 1, Len(r.rs) \div 2)), s, T))
      [] r.t = "alt" ->
            UNION {Run(r.rs[c], s, {Chose(th, c) : th \in T}) :
                        c \in 1..Len(r.rs)}
      [] r.t = "rep" /\ r.r.t \in {"in", "notin"} ->
            UNION {{Chose([th EXCEPT !.e = @ + n],
                          IF r.greedy THEN Len(s) - n ELSE n) :
                        n \in r.lo..RunLength(r.r, s, th.e, r.hi)} : th \in T}
      [] r.t = "rep" /\ r.r.t \notin {"in", "notin"} ->
            \* r? for a pattern r of several characters
            Run(r.r, s, {Chose(th, IF r.greedy THEN 0 ELSE 1) : th \in T})
                \cup {Chose(th, IF r.greedy THEN 1 ELSE 0) : th \in T}
      [] r.t = "grp" ->
            {[th EXCEPT !.g = Append(@, <<th.o[Len(th.o)], th.e>>),
                        !.o = SubSeq(@, 1, Len(@) - 1)] :
                th \in Run(r.r, s, {[x EXCEPT !.o = Append(@, x.e)] : x \in T})}
      [] r.t = "bolm" -> {th \in T : th.e = 0 \/ s[th.e] = "\n"}
      [] r.t = "eol" ->
            {th \in T : th.e = Len(s) \/ (th.e = Len(s) - 1 /\ s[Len(s)] = "\n")}
      [] r.t = "wordb" ->
            {th \in T : IsWordAt(s, th.e) # IsWordAt(s, th.e + 1)}
      [] r.t = "behind" -> {th \in T : th.e >= 1 /\ s[th.e] \in r.cs}
      [] r.t = "behind2" ->
            {th \in T : th.e >= 2 /\ s[th.e - 1] \in r.cs1 /\ s[th.e] \in r.cs2}
      [] r.t = "ahead" -> {th \in T : Run(r.r, s, {th}) # {}}

\* the choices a come before the choices b in dictionary order
Before(a, b) ==
    \E j \in 1..Len(a) :
        /\ j <= Len(b)
        /\ a[j] < b[j]
        /\ \A h \in 1..(j - 1) : a[h] = b[h]

\* the threads that match r from offset a
Ways(r, s, a) == Run(r, s, {[e |-> a, g |-> <<>>, o |-> <<>>, k |-> <<>>]})

\* the thread Python reaches first
First(T) == CHOOSE x \in T : \A y \in T : x.k = y.k \/ Before(x.k, y.k)

NoMatch == [s |-> -1, e |-> -1, g |-> <<>>]

\* pattern.match(s, a): the match at offset a, or NoMatch
MatchAt(r, s, a) ==
    LET T == Ways(r, s, a)
    IN  IF T = {} THEN NoMatch
        ELSE [s |-> a, e |-> First(T).e, g |-> First(T).g]

\* pattern.search(s, a): the leftmost match at or after offset a, or NoMatch
Search(r, s, a) ==
    LET hits == {p \in a..Len(s) : Ways(r, s, p) # {}}
    IN  IF hits = {} THEN NoMatch
        ELSE MatchAt(r, s, CHOOSE p \in hits : \A q \in hits : p <= q)

\* list(pattern.finditer(s)) from offset a: the non-overlapping matches, in order
RECURSIVE FindIter(_, _, _)
FindIter(r, s, a) ==
    LET m == Search(r, s, a)
    IN  IF m = NoMatch THEN <<>>
        ELSE <<m>> \o FindIter(r, s, IF m.e > m.s THEN m.e ELSE m.e + 1)

\* re.sub(r, repl, s) for a literal replacement
RECURSIVE SubFrom(_, _, _, _)
SubFrom(r, repl, s, a) ==
    LET m == Search(r, s, a)
    IN  IF m = NoMatch THEN Slice(s, a, Len(s))
        ELSE IF m.e > m.s
        THEN Slice(s, a, m.s) \o repl \o SubFrom(r, repl, s, m.e)
        ELSE Slice(s, a, m.s) \o repl \o Slice(s, m.s, m.s + 1)
                \o SubFrom(r, repl, s, m.s + 1)

Sub(r, repl, s) == SubFrom(r, repl, s, 0)

(***************************************************************************)
(* borme_batch_parser.py: the fixed vocabularies                           *)
(***************************************************************************)
\* PROVINCIAS
PROVINCIAS ==
    {<<"A","L","B","A","C","E","T","E">>,
     <<"A","L","I","C","A","N","T","E">>,
     <<"A","L","I","C","A","N","T","E","/","A","L","A","C","A","N","T">>,
     <<"A","L","M","E","R","I","A">>,
     <<"A","L","M","E","R","I'","A">>,
     <<"A","R","A","B","A","/","A'","L","A","V","A">>,
     <<"A","S","T","U","R","I","A","S">>,
     <<"A","V","I","L","A">>,
     <<"A'","V","I","L","A">>,
     <<"B","A","D","A","J","O","Z">>,
     <<"B","A","R","C","E","L","O","N","A">>,
     <<"B","I","Z","K","A","I","A">>,
     <<"B","U","R","G","O","S">>,
     <<"C","A","C","E","R","E","S">>,
     <<"C","A'","C","E","R","E","S">>,
     <<"C","A","D","I","Z">>,
     <<"C","A'","D","I","Z">>,
     <<"C","A","N","T","A","B","R","I","A">>,
     <<"C","A","S","T","E","L","L","O","N">>,
     <<"C","A","S","T","E","L","L","O'","N">>,
     <<"C","A","S","T","E","L","L","O'","N","/","C","A","S","T","E","L","L","O'">>,
     <<"C","I","U","D","A","D"," ","R","E","A","L">>,
     <<"C","O","R","D","O","B","A">>,
     <<"C","O'","R","D","O","B","A">>,
     <<"A"," ","C","O","R","U","N~","A">>,
     <<"C","U","E","N","C","A">>,
     <<"G","I","P","U","Z","K","O","A">>,
     <<"G","I","R","O","N","A">>,
     <<"G","R","A","N","A","D","A">>,
     <<"G","U","A","D","A","L","A","J","A","R","A">>,
     <<"H","U","E","L","V","A">>,
     <<"H","U","E","S","C","A">>,
     <<"I","L","L","E","S"," ","B","A","L","E","A","R","S">>,
     <<"J","A","E","N">>,
     <<"J","A","E'","N">>,
     <<"L","E","O","N">>,
     <<"L","E","O'","N">>,
     <<"L","L","E","I","D","A">>,
     <<"L","U","G","O">>,
     <<"M","A","D","R","I","D">>,
     <<"M","A","L","A","G","A">>,
     <<"M","A'","L","A","G","A">>,
     <<"M","E","L","I","L","L","A">>,
     <<"M","U","R","C","I","A">>,
     <<"N","A","V","A","R","R","A">>,
     <<"O","U","R","E","N","S","E">>,
     <<"P","A","L","E","N","C","I","A">>,
     <<"L","A","S"," ","P","A","L","M","A","S">>,
     <<"P","O","N","T","E","V","E","D","R","A">>,
     <<"L","A"," ","R","I","O","J","A">>,
     <<"S","A","L","A","M","A","N","C","A">>,
     <<"S","E","G","O","V","I","A">>,
     <<"S","E","V","I","L","L","A">>,
     <<"S","O","R","I","A">>,
     <<"T","A","R","R","A","G","O","N","A">>,
     <<"S","A","N","T","A"," ","C","R","U","Z"," ","D","E"," ","T","E","N","E","R","I","F","E">>,
     <<"T","E","R","U","E","L">>,
     <<"T","O","L","E","D","O">>,
     <<"V","A","L","E","N","C","I","A">>,
     <<"V","A","L","E","N","C","I","A","/","V","A","L","E^","N","C","I","A">>,
     <<"V","A","L","L","A","D","O","L","I","D">>,
     <<"Z","A","M","O","R","A">>,
     <<"Z","A","R","A","G","O","Z","A">>,
     <<"C","E","U","T","A">>}

\* COD_PROVINCIA.get(cod, "")
COD_PROVINCIA(cod) ==
    CASE cod = <<"0","1">> -> <<"A","R","A","B","A","/","A'","L","A","V","A">>
      [] cod = <<"0","2">> -> <<"A","L","B","A","C","E","T","E">>
      [] cod = <<"0","3">> -> <<"A","L","I","C","A","N","T","E">>
      [] cod = <<"0","4">> -> <<"A","L","M","E","R","I'","A">>
      [] cod = <<"0","5">> -> <<"A'","V","I","L","A">>
      [] cod = <<"0","6">> -> <<"B","A","D","A","J","O","Z">>
      [] cod = <<"0","7">> -> <<"I","L","L","E","S"," ","B","A","L","E","A","R","S">>
      [] cod = <<"0","8">> -> <<"B","A","R","C","E","L","O","N","A">>
      [] cod = <<"0","9">> -> <<"B","U","R","G","O","S">>
      [] cod = <<"1","0">> -> <<"C","A'","C","E","R","E","S">>
      [] cod = <<"1","1">> -> <<"C","A'","D","I","Z">>
      [] cod = <<"1","2">> -> <<"C","A","S","T","E","L","L","O'","N">>
      [] cod = <<"1","3">> -> <<"C","I","U","D","A","D"," ","R","E","A","L">>
      [] cod = <<"1","4">> -> <<"C","O'","R","D","O","B","A">>
      [] cod = <<"1","5">> -> <<"A"," ","C","O","R","U","N~","A">>
      [] cod = <<"1","6">> -> <<"C","U","E","N","C","A">>
      [] cod = <<"1","7">> -> <<"G","I","R","O","N","A">>
      [] cod = <<"1","8">> -> <<"G","R","A","N","A","D","A">>
      [] cod = <<"1","9">> -> <<"G","U","A","D","A","L","A","J","A","R","A">>
      [] cod = <<"2","0">> -> <<"G","I","P","U","Z","K","O","A">>
      [] cod = <<"2","1">> -> <<"H","U","E","L","V","A">>
      [] cod = <<"2","2">> -> <<"H","U","E","S","C","A">>
      [] cod = <<"2","3">> -> <<"J","A","E'","N">>
      [] cod = <<"2","4">> -> <<"L","E","O'","N">>
      [] cod = <<"2","5">> -> <<"L","L","E","I","D","A">>
      [] cod = <<"2","6">> -> <<"L","A"," ","R","I","O","J","A">>
      [] cod = <<"2","7">> -> <<"L","U","G","O">>
      [] cod = <<"2","8">> -> <<"M","A","D","R","I","D">>
      [] cod = <<"2","9">> -> <<"M","A'","L","A","G","A">>
      [] cod = <<"3","0">> -> <<"M","U","R","C","I","A">>
      [] cod = <<"3","1">> -> <<"N","A","V","A","R","R","A">>
      [] cod = <<"3","2">> -> <<"O","U","R","E","N","S","E">>
      [] cod = <<"3","3">> -> <<"A","S","T","U","R","I","A","S">>
      [] cod = <<"3","4">> -> <<"P","A","L","E","N","C","I","A">>
      [] cod = <<"3","5">> -> <<"L","A","S"," ","P","A","L","M","A","S">>
      [] cod = <<"3","6">> -> <<"P","O","N","T","E","V","E","D","R","A">>
      [] cod = <<"3","7">> -> <<"S","A","L","A","M","A","N","C","A">>
      [] cod = <<"3","8">> -> <<"S","A","N","T","A"," ","C","R","U","Z"," ","D","E"," ","T","E","N","E","R","I","F","E">>
      [] cod = <<"3","9">> -> <<"C","A","N","T","A","B","R","I","A">>
      [] cod = <<"4","0">> -> <<"S","E","G","O","V","I","A">>
      [] cod = <<"4","1">> -> <<"S","E","V","I","L","L","A">>
      [] cod = <<"4","2">> -> <<"S","O","R","I","A">>
      [] cod = <<"4","3">> -> <<"T","A","R","R","A","G","O","N","A">>
      [] cod = <<"4","4">> -> <<"T","E","R","U","E","L">>
      [] cod = <<"4","5">> -> <<"T","O","L","E","D","O">>
      [] cod = <<"4","6">> -> <<"V","A","L","E","N","C","I","A">>
      [] cod = <<"4","7">> -> <<"V","A","L","L","A","D","O","L","I","D">>
      [] cod = <<"4","8">> -> <<"B","I","Z","K","A","I","A">>
      [] cod = <<"4","9">> -> <<"Z","A","M","O","R","A">>
      [] cod = <<"5","0">> -> <<"Z","A","R","A","G","O","Z","A">>
      [] cod = <<"5","1">> -> <<"C","E","U","T","A">>
      [] cod = <<"5","2">> -> <<"M","E","L","I","L","L","A">>
      [] cod = <<"9","9">> -> <<"R","E","G","I","S","T","R","O","S"," ","M","E","R","C","A","N","T","I","L","E","S"," ","C","E","N","T","R","A","L","E","S">>
      [] OTHER -> <<>>

\* ACTOS
ACTOS ==
    <<<<"C","o","n","s","t","i","t","u","c","i","o'","n">>,
      <<"D","i","s","o","l","u","c","i","o'","n">>,
      <<"E","x","t","i","n","c","i","o'","n">>,
      <<"C","e","s","e","s","/","D","i","m","i","s","i","o","n","e","s">>,
      <<"N","o","m","b","r","a","m","i","e","n","t","o","s">>,
      <<"R","e","v","o","c","a","c","i","o","n","e","s">>,
      <<"R","e","e","l","e","c","c","i","o","n","e","s">>,
      <<"C","a","n","c","e","l","a","c","i","o","n","e","s"," ","d","e"," ","o","f","i","c","i","o"," ","d","e"," ","n","o","m","b","r","a","m","i","e","n","t","o","s">>,
      <<"N","o","m","b","r","a","m","i","e","n","t","o"," ","d","e"," ","a","d","m","i","n","i","s","t","r","a","d","o","r","e","s">>,
      <<"M","o","d","i","f","i","c","a","c","i","o","n","e","s"," ","e","s","t","a","t","u","t","a","r","i","a","s">>,
      <<"C","a","m","b","i","o"," ","d","e"," ","d","o","m","i","c","i","l","i","o"," ","s","o","c","i","a","l">>,
      <<"C","a","m","b","i","o"," ","d","e"," ","o","b","j","e","t","o"," ","s","o","c","i","a","l">>,
      <<"C","a","m","b","i","o"," ","d","e"," ","d","e","n","o","m","i","n","a","c","i","o'","n"," ","s","o","c","i","a","l">>,
      <<"A","m","p","l","i","a","c","i","o'","n"," ","d","e","l"," ","o","b","j","e","t","o"," ","s","o","c","i","a","l">>,
      <<"A","m","p","l","i","a","c","i","o","n"," ","d","e","l"," ","o","b","j","e","t","o"," ","s","o","c","i","a","l">>,
      <<"A","m","p","l","i","a","c","i","o'","n"," ","d","e"," ","c","a","p","i","t","a","l">>,
      <<"R","e","d","u","c","c","i","o'","n"," ","d","e"," ","c","a","p","i","t","a","l">>,
      <<"F","u","s","i","o'","n"," ","p","o","r"," ","a","b","s","o","r","c","i","o'","n">>,
      <<"F","u","s","i","o'","n">>,
      <<"E","s","c","i","s","i","o'","n">>,
      <<"T","r","a","n","s","f","o","r","m","a","c","i","o'","n"," ","d","e"," ","s","o","c","i","e","d","a","d">>,
      <<"T","r","a","n","s","f","o","r","m","a","c","i","o'","n">>,
      <<"S","i","t","u","a","c","i","o'","n"," ","c","o","n","c","u","r","s","a","l">>,
      <<"A","u","t","o"," ","d","e"," ","d","e","c","l","a","r","a","c","i","o'","n"," ","d","e"," ","c","o","n","c","u","r","s","o">>,
      <<"A","u","t","o"," ","d","e"," ","a","p","e","r","t","u","r","a"," ","d","e"," ","l","a"," ","f","a","s","e"," ","d","e"," ","l","i","q","u","i","d","a","c","i","o'","n">>,
      <<"A","u","t","o"," ","d","e"," ","c","o","n","c","l","u","s","i","o'","n"," ","d","e","l"," ","c","o","n","c","u","r","s","o">>,
      <<"R","e","v","o","c","a","c","i","o'","n"," ","d","e"," ","a","d","m","i","n","i","s","t","r","a","d","o","r","e","s"," ","c","o","n","c","u","r","s","a","l","e","s">>,
      <<"C","r","e'","d","i","t","o"," ","i","n","c","o","b","r","a","b","l","e">>,
      <<"C","i","e","r","r","e"," ","p","r","o","v","i","s","i","o","n","a","l"," ","h","o","j","a"," ","r","e","g","i","s","t","r","a","l">>,
      <<"R","e","a","p","e","r","t","u","r","a"," ","h","o","j","a"," ","r","e","g","i","s","t","r","a","l">>,
      <<"D","e","c","l","a","r","a","c","i","o'","n"," ","d","e"," ","u","n","i","p","e","r","s","o","n","a","l","i","d","a","d">>,
      <<"P","e'","r","d","i","d","a"," ","d","e","l"," ","c","a","r","a'","c","t","e","r"," ","d","e"," ","u","n","i","p","e","r","s","o","n","a","l","i","d","a","d">>,
      <<"P","e'","r","d","i","d","a"," ","d","e","l"," ","c","a","r","a","c","t","e","r"," ","d","e"," ","u","n","i","p","e","r","s","o","n","a","l","i","d","a","d">>,
      <<"O","t","r","o","s"," ","c","o","n","c","e","p","t","o","s">>,
      <<"F","e"," ","d","e"," ","e","r","r","a","t","a","s">>,
      <<"D","e","p","o'","s","i","t","o"," ","d","e"," ","c","u","e","n","t","a","s"," ","a","n","u","a","l","e","s">>,
      <<"E","m","p","r","e","s","a","r","i","o"," ","I","n","d","i","v","i","d","u","a","l">>,
      <<"S","o","c","i","e","d","a","d"," ","u","n","i","p","e","r","s","o","n","a","l">>>>

\* _LEGAL_FORMS
_LEGAL_FORMS ==
    {<<"S","o","c","i","e","d","a","d">>,
     <<"L","i","m","i","t","a","d","a">>,
     <<"A","n","o'","n","i","m","a">>,
     <<"A","n","o","n","i","m","a">>,
     <<"C","o","o","p","e","r","a","t","i","v","a">>,
     <<"P","r","o","f","e","s","i","o","n","a","l">>,
     <<"L","a","b","o","r","a","l">>,
     <<"D","e","p","o","r","t","i","v","a">>,
     <<"U","n","i","p","e","r","s","o","n","a","l">>,
     <<"C","i","v","i","l">>,
     <<"C","o","m","a","n","d","i","t","a","r","i","a">>,
     <<"C","o","l","e","c","t","i","v","a">>,
     <<"C","o","m","a","n","d","i","t","a">>,
     <<"A","g","r","u","p","a","c","i","o'","n">>,
     <<"A","g","r","u","p","a","c","i","o","n">>,
     <<"E","u","r","o","p","e","a">>,
     <<"R","e","s","p","o","n","s","a","b","i","l","i","d","a","d">>,
     <<"S","u","c","u","r","s","a","l">>,
     <<"N","u","e","v","a">>,
     <<"E","m","p","r","e","s","a">>}

\* CARGO_EXCLUDE
CARGO_EXCLUDE ==
    {<<"O","b","j","e","t","o"," ","s","o","c","i","a","l">>,
     <<"D","o","m","i","c","i","l","i","o">>,
     <<"C","a","p","i","t","a","l">>,
     <<"D","a","t","o","s"," ","r","e","g","i","s","t","r","a","l","e","s">>,
     <<"A","C","T","I","V","I","D","A","D"," ","P","R","I","N","C","I","P","A","L">>,
     <<"C","o","m","i","e","n","z","o"," ","d","e"," ","o","p","e","r","a","c","i","o","n","e","s">>,
     <<"A","r","t","i'","c","u","l","o"," ","d","e"," ","l","o","s"," ","e","s","t","a","t","u","t","o","s">>,
     <<"A","R","T","I","C","U","L","O">>,
     <<"O","t","r","o","s"," ","c","o","n","c","e","p","t","o","s">>,
     <<"S","o","c","i","e","d","a","d","e","s"," ","a","b","s","o","r","b","i","d","a","s">>,
     <<"R","e","s","o","l","u","c","i","o","n","e","s">>,
     <<"D","e","n","o","m","i","n","a","c","i","o'","n"," ","y"," ","f","o","r","m","a"," ","a","d","o","p","t","a","d","a">>}

\* the keys of SECTION_MAP, in insertion order
SECTION_KEYS ==
    <<<<"N","o","m","b","r","a","m","i","e","n","t","o","s">>,
      <<"C","e","s","e","s","/","D","i","m","i","s","i","o","n","e","s">>,
      <<"R","e","v","o","c","a","c","i","o","n","e","s">>,
      <<"R","e","e","l","e","c","c","i","o","n","e","s">>,
      <<"C","a","n","c","e","l","a","c","i","o","n","e","s"," ","d","e"," ","o","f","i","c","i","o"," ","d","e"," ","n","o","m","b","r","a","m","i","e","n","t","o","s">>>>

\* SECTION_MAP[kw]
SECTION_MAP(kw) ==
    CASE kw = <<"N","o","m","b","r","a","m","i","e","n","t","o","s">> -> "nombramiento"
      [] kw = <<"C","e","s","e","s","/","D","i","m","i","s","i","o","n","e","s">> -> "cese"
      [] kw = <<"R","e","v","o","c","a","c","i","o","n","e","s">> -> "revocacion"
      [] kw = <<"R","e","e","l","e","c","c","i","o","n","e","s">> -> "reeleccion"
      [] kw = <<"C","a","n","c","e","l","a","c","i","o","n","e","s"," ","d","e"," ","o","f","i","c","i","o"," ","d","e"," ","n","o","m","b","r","a","m","i","e","n","t","o","s">> -> "cancelacion"

\* _SKIP_LINES
_SKIP_LINES ==
    {<<"S","E","C","C","I","O'","N"," ","P","R","I","M","E","R","A">>,
     <<"E","m","p","r","e","s","a","r","i","o","s">>,
     <<"A","c","t","o","s"," ","i","n","s","c","r","i","t","o","s">>,
     <<"S","E","C","C","I","O'","N"," ","S","E","G","U","N","D","A">>,
     <<"A","n","u","n","c","i","o","s"," ","y"," ","a","v","i","s","o","s"," ","l","e","g","a","l","e","s">>,
     <<"O","t","r","o","s"," ","a","c","t","o","s"," ","p","u","b","l","i","c","a","d","o","s"," ","e","n"," ","e","l"," ","R","e","g","i","s","t","r","o"," ","M","e","r","c","a","n","t","i","l">>}

(***************************************************************************)
(* borme_batch_parser.py: the patterns                                     *)
(***************************************************************************)
\* [A-ZA'E'I'O'U'N~]
CapLetter == AsciiUpper \cup AccentUpper \cup {"N~"}

\* [a-za'e'i'o'u'n~]
SmallLetter == AsciiLower \cup AccentLower \cup {"n~"}

\* ^(\d{4,7})\s*-\s*   re.MULTILINE
ENTRY_START_RE ==
    Cat(<<BolM, Grp(Rep(In(Digit), 4, 7)), Star(In(Space)), In({"-"}),
          Star(In(Space))>>)

\* (?<=\.)\s+(?=[A-ZA'E'I'O'U'N~][a-za'e'i'o'u'n~]{2,})
_BODY_START_RE ==
    Cat(<<Behind({"."}), Plus(In(Space)),
          Ahead(Cat(<<In(CapLetter), Rep(In(SmallLetter), 2, -1)>>))>>)

\* \.\s+Fe de erratas
_FE_ERRATAS_RE ==
    Cat(<<In({"."}), Plus(In(Space)), Lit(<<"F","e"," ","d","e"," ","e","r","r","a","t","a","s">>)>>)

(***************************************************************************)
(* _clean                                                                  *)
(***************************************************************************)
\* ^[\d-]+[A-Z]-EMROB$ at the start of the stripped line
FooterCodeRE ==
    Cat(<<Plus(In(Digit \cup {"-"})), In(AsciiUpper), Lit(<<"-","E","M","R","O","B">>), Eol>>)

\* a faulty IsNoiseLine: the lines of _SKIP_LINES kept
IsNoiseLine_keeps_headers(line) ==
    LET s == Strip(line)
    IN  \/ StartsWith(s, <<"B","O","L","E","T","I'","N"," ","O","F","I","C","I","A","L"," ","D","E","L"," ","R","E","G","I","S","T","R","O">>)
        \/ (StartsWith(s, <<"N","u'","m",".">>) /\ Contains(s, <<"P","a'","g",".">>))
        \/ MatchAt(FooterCodeRE, s, 0) # NoMatch
        \/ s = <<":","e","v","c">>
        \/ StartsWith(s, <<"h","t","t","p",":","/","/","w","w","w",".","b","o","e",".","e","s">>)
        \/ Contains(s, <<"D",".","L",".",":"," ","M","-","5","1","8","8">>)

\* the tests of _clean on one line: TRUE when the line is dropped
IsNoiseLine(line) ==
    LET s == Strip(line)
    IN  \/ StartsWith(s, <<"B","O","L","E","T","I'","N"," ","O","F","I","C","I","A","L"," ","D","E","L"," ","R","E","G","I","S","T","R","O">>)
        \/ (StartsWith(s, <<"N","u'","m",".">>) /\ Contains(s, <<"P","a'","g",".">>))
        \/ MatchAt(FooterCodeRE, s, 0) # NoMatch
        \/ s = <<":","e","v","c">>
        \/ StartsWith(s, <<"h","t","t","p",":","/","/","w","w","w",".","b","o","e",".","e","s">>)
        \/ Contains(s, <<"D",".","L",".",":"," ","M","-","5","1","8","8">>)
        \/ s \in _SKIP_LINES

_clean(raw) ==
    Join(SelectSeq(SplitChar(raw, "\n"), LAMBDA line : ~IsNoiseLine(line)),
         <<"\n">>)

(***************************************************************************)
(* _normalize_empresa                                                      *)
(***************************************************************************)
\* the suffix list of _normalize_empresa, in list order
LIGHT_SUFFIXES ==
    <<<<" ","S","O","C","I","E","D","A","D"," ","A","N","O","N","I","M","A"," ","D","E","P","O","R","T","I","V","A">>,
      <<" ","S","O","C","I","E","D","A","D"," ","A","N","O","N","I","M","A">>,
      <<" ","S","O","C","I","E","D","A","D"," ","L","I","M","I","T","A","D","A"," ","P","R","O","F","E","S","I","O","N","A","L">>,
      <<" ","S","O","C","I","E","D","A","D"," ","L","I","M","I","T","A","D","A"," ","L","A","B","O","R","A","L">>,
      <<" ","S","O","C","I","E","D","A","D"," ","L","I","M","I","T","A","D","A"," ","N","U","E","V","A"," ","E","M","P","R","E","S","A">>,
      <<" ","S","O","C","I","E","D","A","D"," ","L","I","M","I","T","A","D","A">>,
      <<" ","S","O","C","I","E","D","A","D"," ","C","O","O","P","E","R","A","T","I","V","A"," ","A","N","D","A","L","U","Z","A">>,
      <<" ","S","O","C","I","E","D","A","D"," ","C","O","O","P","E","R","A","T","I","V","A">>,
      <<" ","S","O","C","I","E","D","A","D"," ","C","I","V","I","L"," ","P","R","O","F","E","S","I","O","N","A","L">>,
      <<" ","S","O","C","I","E","D","A","D"," ","C","I","V","I","L">>,
      <<" ","A","G","R","U","P","A","C","I","O","N"," ","D","E"," ","I","N","T","E","R","E","S"," ","E","C","O","N","O","M","I","C","O">>,
      <<" ","S","A","U">>,
      <<" ","S","L","U">>,
      <<" ","S","A","D">>,
      <<" ","S","L","L">>,
      <<" ","S","L","P">>,
      <<" ","S","L","N","E">>,
      <<" ","S","A"," ","S","M","E">>,
      <<" ","S","A">>,
      <<" ","S","L">>,
      <<" ","S","C">>,
      <<" ","S","C","A">>,
      <<" ","S","C","C","L">>,
      <<" ","S","C","O","O","P">>,
      <<" ","S","E">>,
      <<" ","S","R","L">>,
      <<" ","A","I","E">>>>

\* [.,;]+$
TrailPunctRE == Cat(<<Plus(In({".", ",", ";"})), Eol>>)

\* the for loop over the suffixes: the first suffix of the list that ends n
\* is cut, once
StripFirstSuffix(n, sufs) ==
    LET ends == {k \in 1..Len(sufs) : EndsWith(n, sufs[k])}
        first == CHOOSE k \in ends : \A j \in ends : k <= j
    IN  IF ends = {} THEN n
        ELSE Strip(Slice(n, 0, Len(n) - Len(sufs[first])))

\* the successive values of n, in the order of the assignments; the last
\* is returned
_normalize_empresa(name) ==
    LET n0 == Strip(Upper(name))
        n1 == StripFirstSuffix(n0, LIGHT_SUFFIXES)
        n2 == Strip(Sub(TrailPunctRE, <<>>, n1))
    IN  <<n0, n1, n2>>[3]

(***************************************************************************)
(* borme_placsp_match.py: normalize_empresa                                *)
(***************************************************************************)
\* unicodedata.normalize('NFD', c) with the marks (category Mn) removed
FoldChar(c) ==
    CASE c = "A'" -> "A" [] c = "E'" -> "E" [] c = "I'" -> "I"
      [] c = "O'" -> "O" [] c = "U'" -> "U" [] c = "E^" -> "E"
      [] c = "a'" -> "a" [] c = "e'" -> "e" [] c = "i'" -> "i"
      [] c = "o'" -> "o" [] c = "u'" -> "u"
      [] c = "N~" -> "N" [] c = "n~" -> "n"
      [] OTHER -> c

ENIE == <<"#","#","E","N","I","E","#","#">>

\* the accent fold that keeps N~
FoldAccents(n) ==
    LET a == Replace(n, <<"N~">>, ENIE)
        b == [k \in 1..Len(a) |-> FoldChar(a[k])]
    IN  Replace(b, ENIE, <<"N~">>)

\* \s*\([^)]*\)
ParenRE ==
    Cat(<<Star(In(Space)), In({"("}), Star(NotIn({")"})), In({")"})>>)

\* \bX\s*\.\s*Y\s*\.\s*Z\s*\.?\b for the letters X, Y, Z
RECURSIVE DottedTail(_)
DottedTail(letters) ==
    IF letters = <<>> THEN <<Star(In(Space)), Opt(In({"."})), WordB>>
    ELSE <<Star(In(Space)), In({"."}), Star(In(Space)), In({Head(letters)})>>
            \o DottedTail(Tail(letters))

DottedRE(letters) ==
    Cat(<<WordB, In({Head(letters)})>> \o DottedTail(Tail(letters)))

\* \bX\s+Y\s+Z\b for the letters X, Y, Z, followed by $ when atEnd
RECURSIVE SpacedTail(_, _)
SpacedTail(letters, atEnd) ==
    IF letters = <<>> THEN IF atEnd THEN <<WordB, Eol>> ELSE <<WordB>>
    ELSE <<Plus(In(Space)), In({Head(letters)})>>
            \o SpacedTail(Tail(letters), atEnd)

SpacedRE(letters, atEnd) ==
    Cat(<<WordB, In({Head(letters)})>> \o SpacedTail(Tail(letters), atEnd))

\* the re.sub calls on abbreviations, in program order: the dotted forms,
\* then the spaced forms; each is replaced by its letters joined
ABBREV_SUBS ==
    <<[re |-> DottedRE(<<"S","R","L">>), to |-> <<"S","R","L">>],
      [re |-> DottedRE(<<"S","L","U">>), to |-> <<"S","L","U">>],
      [re |-> DottedRE(<<"S","L","P">>), to |-> <<"S","L","P">>],
      [re |-> DottedRE(<<"S","L","L">>), to |-> <<"S","L","L">>],
      [re |-> DottedRE(<<"S","L">>), to |-> <<"S","L">>],
      [re |-> DottedRE(<<"S","A","U">>), to |-> <<"S","A","U">>],
      [re |-> DottedRE(<<"S","A","E">>), to |-> <<"S","A","E">>],
      [re |-> DottedRE(<<"S","A">>), to |-> <<"S","A">>],
      [re |-> DottedRE(<<"S","C">>), to |-> <<"S","C">>],
      [re |-> DottedRE(<<"A","I","E">>), to |-> <<"A","I","E">>],
      [re |-> DottedRE(<<"S","M","E">>), to |-> <<"S","M","E">>],
      [re |-> SpacedRE(<<"S","R","L">>, FALSE), to |-> <<"S","R","L">>],
      [re |-> SpacedRE(<<"S","M","E">>, FALSE), to |-> <<"S","M","E">>],
      [re |-> SpacedRE(<<"S","L","U">>, FALSE), to |-> <<"S","L","U">>],
      [re |-> SpacedRE(<<"S","L","P">>, FALSE), to |-> <<"S","L","P">>],
      [re |-> SpacedRE(<<"S","L","L">>, FALSE), to |-> <<"S","L","L">>],
      [re |-> SpacedRE(<<"S","L">>, TRUE), to |-> <<"S","L">>],
      [re |-> SpacedRE(<<"S","A","U">>, FALSE), to |-> <<"S","A","U">>],
      [re |-> SpacedRE(<<"S","A","E">>, FALSE), to |-> <<"S","A","E">>],
      [re |-> SpacedRE(<<"S","A">>, TRUE), to |-> <<"S","A">>]>>

\* the substitutions lo..hi of subs applied to n in list order: the first
\* half of them, then the second half; none of them changes the empty string
RECURSIVE ApplySubs(_, _, _, _)
ApplySubs(n, subs, lo, hi) ==
    IF n = <<>> \/ lo > hi THEN n
    ELSE IF lo = hi THEN Sub(subs[lo].re, subs[lo].to, n)
    ELSE ApplySubs(ApplySubs(n, subs, lo, (lo + hi) \div 2), subs,
                   (lo + hi) \div 2 + 1, hi)

\* SUFFIXES of normalize_empresa, in list order
SUFFIXES ==
    <<<<" ","S","O","C","I","E","D","A","D"," ","A","N","O","N","I","M","A"," ","D","E","P","O","R","T","I","V","A">>,
      <<" ","S","O","C","I","E","D","A","D"," ","A","N","O","N","I","M","A">>,
      <<" ","S","O","C","I","E","D","A","D"," ","L","I","M","I","T","A","D","A"," ","P","R","O","F","E","S","I","O","N","A","L">>,
      <<" ","S","O","C","I","E","D","A","D"," ","L","I","M","I","T","A","D","A"," ","L","A","B","O","R","A","L">>,
      <<" ","S","O","C","I","E","D","A","D"," ","L","I","M","I","T","A","D","A"," ","N","U","E","V","A"," ","E","M","P","R","E","S","A">>,
      <<" ","S","O","C","I","E","D","A","D"," ","L","I","M","I","T","A","D","A">>,
      <<" ","S","O","C","I","E","D","A","D"," ","C","O","O","P","E","R","A","T","I","V","A"," ","A","N","D","A","L","U","Z","A">>,
      <<" ","S","O","C","I","E","D","A","D"," ","C","O","O","P","E","R","A","T","I","V","A">>,
      <<" ","S","O","C","I","E","D","A","D"," ","C","I","V","I","L"," ","P","R","O","F","E","S","I","O","N","A","L">>,
      <<" ","S","O","C","I","E","D","A","D"," ","C","I","V","I","L">>,
      <<" ","S","O","C","I","E","D","A","D"," ","U","N","I","P","E","R","S","O","N","A","L">>,
      <<" ","A","G","R","U","P","A","C","I","O","N"," ","D","E"," ","I","N","T","E","R","E","S"," ","E","C","O","N","O","M","I","C","O">>,
      <<" ","S","A","U">>,
      <<" ","S","L","U">>,
      <<" ","S","A","D">>,
      <<" ","S","L","L">>,
      <<" ","S","L","P">>,
      <<" ","S","L","N","E">>,
      <<" ","S","A"," ","S","M","E">>,
      <<" ","S","A","E">>,
      <<" ","S","M","E">>,
      <<" ","S","A">>,
      <<" ","S","L">>,
      <<" ","S","C">>,
      <<" ","S","C","A">>,
      <<" ","S","C","C","L">>,
      <<" ","S","C","O","O","P">>,
      <<" ","S","E">>,
      <<" ","S","R","L">>,
      <<" ","A","I","E">>>>

\* the while loop: cut the first suffix that ends n, until none does
RECURSIVE StripSuffixLoop(_)
StripSuffixLoop(n) ==
    IF \E k \in 1..Len(SUFFIXES) : EndsWith(n, SUFFIXES[k])
    THEN StripSuffixLoop(StripFirstSuffix(n, SUFFIXES))
    ELSE n

normalize_empresa(name) ==
    IF name = <<>> THEN <<>>
    ELSE LET n0 == Strip(Upper(name))
             n1 == FoldAccents(n0)
             n2 == Sub(ParenRE, <<>>, n1)
             n3 == ApplySubs(n2, ABBREV_SUBS, 1, Len(ABBREV_SUBS))
             n4 == Sub(In({",", ".", "-"}), <<" ">>, n3)
             n5 == Strip(Sub(Plus(In(Space)), <<" ">>, n4))
             n6 == StripSuffixLoop(n5)
             n7 == Strip(Sub(TrailPunctRE, <<>>, n6))
         \* the successive values of n, in the order of the assignments;
         \* the last is returned
         IN  <<n0, n1, n2, n3, n4, n5, n6, n7>>[8]

(***************************************************************************)
(* borme_batch_parser.py: parse_single_pdf, the file name and the date     *)
(***************************************************************************)
\* m.group(k) of a match m in s
Group(s, m, k) == Slice(s, m.g[k][1], m.g[k][2])

\* BORME-([A-Z])-(\d{4})-(\d+)-(\d+)
FNAME_RE ==
    Cat(<<Lit(<<"B","O","R","M","E","-">>), Grp(In(AsciiUpper)), In({"-"}),
          Grp(Rep(In(Digit), 4, 4)), In({"-"}), Grp(Plus(In(Digit))),
          In({"-"}), Grp(Plus(In(Digit)))>>)

DigitValue(c) ==
    CASE c = "0" -> 0 [] c = "1" -> 1 [] c = "2" -> 2 [] c = "3" -> 3
      [] c = "4" -> 4 [] c = "5" -> 5 [] c = "6" -> 6 [] c = "7" -> 7
      [] c = "8" -> 8 [] c = "9" -> 9

\* int(s) for a string of digits
RECURSIVE ToInt(_)
ToInt(s) ==
    IF s = <<>> THEN 0
    ELSE 10 * ToInt(SubSeq(s, 1, Len(s) - 1)) + DigitValue(s[Len(s)])

\* p.isdigit()
IsDigits(p) == p # <<>> /\ \A k \in 1..Len(p) : p[k] \in Digit

\* p.zfill(2)
ZFill2(p) ==
    IF Len(p) >= 2 THEN p
    ELSE IF Len(p) = 1 THEN <<"0">> \o p
    ELSE <<"0", "0">>

\* the loop over the path parts: the date taken at the first part that is a
\* year, or the 1st of January of the file name's year
RECURSIVE FechaFrom(_, _, _)
FechaFrom(parts, idx, year) ==
    IF idx > Len(parts) THEN year \o <<"-","0","1","-","0","1">>
    ELSE IF /\ IsDigits(parts[idx]) /\ Len(parts[idx]) = 4
            /\ 2000 <= ToInt(parts[idx]) /\ ToInt(parts[idx]) <= 2030
    THEN IF idx + 2 <= Len(parts)
         THEN parts[idx] \o <<"-">> \o ZFill2(parts[idx + 1]) \o <<"-">>
                \o ZFill2(parts[idx + 2])
         ELSE year \o <<"-","0","1","-","0","1">>
    ELSE FechaFrom(parts, idx + 1, year)

(***************************************************************************)
(* parse_single_pdf: one entry                                             *)
(***************************************************************************)
\* block: the entry text on one line
Block(text, start, end) ==
    Strip(Sub(Rep(In(Space), 2, -1), <<" ">>,
              Replace(Slice(text, start, end), <<"\n">>, <<" ">>)))

\* first_word: the word after the candidate that ends at offset e
FirstWord(block, e) ==
    LET rest == Slice(block, e, e + 40)
    IN  Strip(SplitChar(SplitChar(SplitChar(rest, ".")[1], ":")[1], " ")[1])

\* a faulty ScanBodyStart: the loop without the test on _LEGAL_FORMS
ScanBodyStart_unguarded(block, ms, k, body_pos) ==
    IF k > Len(ms) THEN body_pos
    ELSE IF ms[k].s + 1 >= body_pos THEN body_pos
    ELSE ms[k].s + 1

\* the for loop over _BODY_START_RE.finditer(block)
RECURSIVE ScanBodyStart(_, _, _, _)
ScanBodyStart(block, ms, k, body_pos) ==
    IF k > Len(ms) THEN body_pos
    ELSE IF ms[k].s + 1 >= body_pos THEN body_pos
    ELSE IF FirstWord(block, ms[k].e) \in _LEGAL_FORMS
    THEN ScanBodyStart(block, ms, k + 1, body_pos)
    ELSE ms[k].s + 1

\* a faulty BodyPos: without the search for _FE_ERRATAS_RE
BodyPos_no_erratas(block) ==
    ScanBodyStart(block, FindIter(_BODY_START_RE, block, 0), 1, Len(block))

\* body_pos
BodyPos(block) ==
    LET fe == Search(_FE_ERRATAS_RE, block, 0)
        p0 == IF fe # NoMatch THEN fe.s + 1 ELSE Len(block)
    IN  ScanBodyStart(block, FindIter(_BODY_START_RE, block, 0), 1, p0)

\* a faulty Empresa: without .rstrip('.')
Empresa_with_periods(block, body_pos) == Strip(Slice(block, 0, body_pos))

\* empresa
Empresa(block, body_pos) == RStripSet(Strip(Slice(block, 0, body_pos)), {"."})

\* body
Body(block, body_pos) ==
    IF body_pos < Len(block)
    THEN <<".", " ">> \o Strip(Slice(block, body_pos, Len(block)))
    ELSE <<>>

\* a faulty ScanProvincia: the loop stopped at the first line that is a
\* jurisdiction name
ScanProvincia_first(lines, cur) ==
    LET named == {k \in 1..Len(lines) : Strip(lines[k]) \in PROVINCIAS}
    IN  IF named = {} THEN cur
        ELSE Strip(lines[CHOOSE k \in named : \A j \in named : k <= j])

\* the for loop over the lines before the marker: every line that is a
\* jurisdiction name is assigned in turn, so the last of them stays
ScanProvincia(lines, cur) ==
    LET named == {k \in 1..Len(lines) : Strip(lines[k]) \in PROVINCIAS}
    IN  IF named = {} THEN cur
        ELSE Strip(lines[CHOOSE k \in named : \A j \in named : j <= k])

\* provincia_actual after the gap before entry i (i from 1)
ProvinciaAt(text, splits, i, cur) ==
    LET gap_start == IF i > 1 THEN splits[i - 1].s ELSE 0
    IN  ScanProvincia(SplitChar(Slice(text, gap_start, splits[i].s), "\n"), cur)

(***************************************************************************)
(* parse_single_pdf: the fields of the body                                *)
(***************************************************************************)
DotOrColon == In({".", ":"})

\* Comienzo de operaciones[.:]\s*([\d.]+)
COMIENZO_RE ==
    Cat(<<Lit(<<"C","o","m","i","e","n","z","o"," ","d","e"," ","o","p","e","r","a","c","i","o","n","e","s">>), DotOrColon, Star(In(Space)),
          Grp(Plus(In(Digit \cup {"."})))>>)

\* Objeto social[.:]\s*(.+?)(?:[.]\s*Domicilio[.:]|$)   re.DOTALL
OBJETO_RE ==
    Cat(<<Lit(<<"O","b","j","e","t","o"," ","s","o","c","i","a","l">>), DotOrColon, Star(In(Space)),
          Grp(RepLazy(DotAll, 1, -1)),
          Alt(<<Cat(<<In({"."}), Star(In(Space)), Lit(<<"D","o","m","i","c","i","l","i","o">>),
                      DotOrColon>>),
                Eol>>)>>)

\* Domicilio[.:]\s*(.+?)(?:[.]\s*Capital[.:]|$)   re.DOTALL
DOMICILIO_RE ==
    Cat(<<Lit(<<"D","o","m","i","c","i","l","i","o">>), DotOrColon, Star(In(Space)),
          Grp(RepLazy(DotAll, 1, -1)),
          Alt(<<Cat(<<In({"."}), Star(In(Space)), Lit(<<"C","a","p","i","t","a","l">>),
                      DotOrColon>>),
                Eol>>)>>)

\* Cambio de domicilio social[.:]\s*(.+?)(?:[.]\s*Datos registrales|$)
CAMBIO_DOMICILIO_RE ==
    Cat(<<Lit(<<"C","a","m","b","i","o"," ","d","e"," ","d","o","m","i","c","i","l","i","o"," ","s","o","c","i","a","l">>), DotOrColon, Star(In(Space)),
          Grp(RepLazy(Dot, 1, -1)),
          Alt(<<Cat(<<In({"."}), Star(In(Space)), Lit(<<"D","a","t","o","s"," ","r","e","g","i","s","t","r","a","l","e","s">>)>>),
                Eol>>)>>)

\* Capital[.:]\s*([\d.,]+)\s*Euros
CAPITAL_RE ==
    Cat(<<Lit(<<"C","a","p","i","t","a","l">>), DotOrColon, Star(In(Space)),
          Grp(Plus(In(Digit \cup {".", ","}))), Star(In(Space)),
          Lit(<<"E","u","r","o","s">>)>>)

\* a faulty DATOS_REG_RE: the book number may be missing
DATOS_REG_RE_loose ==
    Cat(<<Lit(<<"D","a","t","o","s"," ","r","e","g","i","s","t","r","a","l","e","s">>),
          In({".", ":"}),
          Star(In(Space)), In({"T"}), Star(In(Space)), Grp(Plus(In(Digit))),
          In({","}),
          Star(In(Space)), In({"L"}), Star(In(Space)), Grp(Star(In(Digit))),
          In({","}),
          Star(In(Space)), In({"F"}), Star(In(Space)), Grp(Plus(In(Digit))),
          In({","}),
          Star(In(Space)), In({"S"}), Star(In(Space)), Grp(Plus(In(Digit))),
          In({","}),
          Star(In(Space)), In({"H"}), Star(In(Space)),
          Grp(Cat(<<Star(In(AsciiUpper \cup Space)), Plus(In(Digit))>>)),
          In({","}),
          Star(In(Space)), Lit(<<"I","/","A">>), Star(In(Space)), Grp(Plus(In(Digit))),
          Star(In(Space)), In({"("}),
          Grp(Cat(<<Rep(In(Digit), 1, 2), In({"."}), Rep(In(Digit), 2, 2),
                    In({"."}), Rep(In(Digit), 2, 4)>>)),
          In({")"})>>)

\* Datos registrales[.:]\s*T\s*(\d+),\s*L\s*(\d+),\s*F\s*(\d+),\s*S\s*(\d+),
\* \s*H\s*([A-Z\s]*\d+),\s*I/A\s*(\d+)\s*\((\d{1,2}\.\d{2}\.\d{2,4})\)
DATOS_REG_RE ==
    Cat(<<Lit(<<"D","a","t","o","s"," ","r","e","g","i","s","t","r","a","l","e","s">>), DotOrColon,
          Star(In(Space)), In({"T"}), Star(In(Space)), Grp(Plus(In(Digit))),
          In({","}),
          Star(In(Space)), In({"L"}), Star(In(Space)), Grp(Plus(In(Digit))),
          In({","}),
          Star(In(Space)), In({"F"}), Star(In(Space)), Grp(Plus(In(Digit))),
          In({","}),
          Star(In(Space)), In({"S"}), Star(In(Space)), Grp(Plus(In(Digit))),
          In({","}),
          Star(In(Space)), In({"H"}), Star(In(Space)),
          Grp(Cat(<<Star(In(AsciiUpper \cup Space)), Plus(In(Digit))>>)),
          In({","}),
          Star(In(Space)), Lit(<<"I","/","A">>), Star(In(Space)), Grp(Plus(In(Digit))),
          Star(In(Space)), In({"("}),
          Grp(Cat(<<Rep(In(Digit), 1, 2), In({"."}), Rep(In(Digit), 2, 2),
                    In({"."}), Rep(In(Digit), 2, 4)>>)),
          In({")"})>>)

\* an optional field: <<>> when unset, <<value>> when set
Unset == <<>>

Set(v) == <<v>>

\* float(x) raises ValueError unless x is digits with at most one point
IsFloat(x) ==
    /\ \E k \in 1..Len(x) : x[k] \in Digit
    /\ Cardinality({k \in 1..Len(x) : x[k] = "."}) <= 1

RECURSIVE Pow10(_)
Pow10(k) == IF k = 0 THEN 1 ELSE 10 * Pow10(k - 1)

\* float(x), for x of digits and at most one point: the number m / 10^s
\* with the least s there is.  (The double that float gives determines this
\* number for numerals of at most 15 significant digits.)
Float(x) ==
    LET point == {k \in 1..Len(x) : x[k] = "."}
        s0 == IF point = {} THEN 0 ELSE Len(x) - (CHOOSE k \in point : TRUE)
        m0 == ToInt(SelectSeq(x, LAMBDA c : c # "."))
        z == CHOOSE k \in 0..s0 :
                /\ m0 % Pow10(k) = 0
                /\ k = s0 \/ m0 % Pow10(k + 1) # 0
    IN  [m |-> m0 \div Pow10(z), s |-> s0 - z]

\* a faulty CapitalEuros: the periods are not deleted
CapitalEuros_keeps_periods(body) ==
    LET m == Search(CAPITAL_RE, body, 0)
        x == Replace(Group(body, m, 1), <<",">>, <<".">>)
    IN  IF m # NoMatch /\ IsFloat(x) THEN Set(Float(x)) ELSE Unset

\* row["capital_euros"]
CapitalEuros(body) ==
    LET m == Search(CAPITAL_RE, body, 0)
        x == Replace(Replace(Group(body, m, 1), <<".">>, <<>>), <<",">>, <<".">>)
    IN  IF m # NoMatch /\ IsFloat(x) THEN Set(Float(x)) ELSE Unset

HasActo(body, acto) ==
    Contains(body, acto \o <<".">>) \/ Contains(body, acto \o <<":">>)

CONSTITUCION == <<"C","o","n","s","t","i","t","u","c","i","o'","n">>

\* the test of the for loop over ACTOS at ACTOS[k], actos being the list
\* before the loop: the act is in the body, is not the incorporation, and is
\* neither in actos nor appended at an earlier place of ACTOS
ScanActos(body, k, actos) ==
    /\ HasActo(body, ACTOS[k])
    /\ ACTOS[k] # CONSTITUCION
    /\ \A j \in 1..Len(actos) : actos[j] # ACTOS[k]
    /\ \A j \in 1..(k - 1) : ACTOS[j] # ACTOS[k]

\* actos, before the join
Actos(body) ==
    LET a0 == IF HasActo(body, CONSTITUCION) THEN <<CONSTITUCION>> ELSE <<>>
        a1 == IF /\ Search(DOMICILIO_RE, body, 0) = NoMatch
                 /\ Contains(body, <<"C","a","m","b","i","o"," ","d","e"," ","d","o","m","i","c","i","l","i","o"," ","s","o","c","i","a","l",".">>)
              THEN Append(a0, <<"C","a","m","b","i","o"," ","d","e"," ","d","o","m","i","c","i","l","i","o">>)
              ELSE a0
        ks == SelectSeq([k \in 1..Len(ACTOS) |-> k],
                        LAMBDA k : ScanActos(body, k, a1))
    IN  a1 \o [j \in 1..Len(ks) |-> ACTOS[ks[j]]]

\* row["domicilio"]
Domicilio(body) ==
    LET m == Search(DOMICILIO_RE, body, 0)
        dm == Search(CAMBIO_DOMICILIO_RE, body, 0)
    IN  IF m # NoMatch THEN Set(Slice(Strip(Group(body, m, 1)), 0, 300))
        ELSE IF Contains(body, <<"C","a","m","b","i","o"," ","d","e"," ","d","o","m","i","c","i","l","i","o"," ","s","o","c","i","a","l",".">>) /\ dm # NoMatch
        THEN Set(Slice(Strip(Group(body, dm, 1)), 0, 300))
        ELSE Unset

\* a faulty EmpresaRow: the start of operations and the object of business
\* looked for in every body
EmpresaRow_unguarded(meta, entry_num, empresa, provincia, body) ==
    LET mc == Search(COMIENZO_RE, body, 0)
        mo == Search(OBJETO_RE, body, 0)
        mr == Search(DATOS_REG_RE, body, 0)
    IN  [fecha_borme |-> meta.fecha_borme,
         num_borme |-> meta.numero,
         num_entrada |-> entry_num,
         empresa |-> empresa,
         empresa_norm |-> _normalize_empresa(empresa),
         provincia |-> provincia,
         cod_provincia |-> meta.cod_prov,
         tipo_borme |-> meta.tipo,
         pdf_filename |-> meta.fname,
         fecha_constitucion |->
            IF mc # NoMatch THEN Set(Group(body, mc, 1)) ELSE Unset,
         objeto_social |->
            IF mo # NoMatch
            THEN Set(Slice(Strip(Group(body, mo, 1)), 0, 500)) ELSE Unset,
         domicilio |-> Domicilio(body),
         capital_euros |-> CapitalEuros(body),
         actos |-> Join(Actos(body), <<"|">>),
         hoja_registral |->
            IF mr # NoMatch THEN Set(Strip(Group(body, mr, 5))) ELSE Unset,
         tomo |-> IF mr # NoMatch THEN Set(Group(body, mr, 1)) ELSE Unset,
         inscripcion |-> IF mr # NoMatch THEN Set(Group(body, mr, 6)) ELSE Unset,
         fecha_inscripcion |->
            IF mr # NoMatch THEN Set(Group(body, mr, 7)) ELSE Unset]

\* the company row of one entry
EmpresaRow(meta, entry_num, empresa, provincia, body) ==
    LET con == HasActo(body, CONSTITUCION)
        mc == Search(COMIENZO_RE, body, 0)
        mo == Search(OBJETO_RE, body, 0)
        mr == Search(DATOS_REG_RE, body, 0)
    IN  [fecha_borme |-> meta.fecha_borme,
         num_borme |-> meta.numero,
         num_entrada |-> entry_num,
         empresa |-> empresa,
         empresa_norm |-> _normalize_empresa(empresa),
         provincia |-> provincia,
         cod_provincia |-> meta.cod_prov,
         tipo_borme |-> meta.tipo,
         pdf_filename |-> meta.fname,
         fecha_constitucion |->
            IF con /\ mc # NoMatch THEN Set(Group(body, mc, 1)) ELSE Unset,
         objeto_social |->
            IF con /\ mo # NoMatch
            THEN Set(Slice(Strip(Group(body, mo, 1)), 0, 500)) ELSE Unset,
         domicilio |-> Domicilio(body),
         capital_euros |-> CapitalEuros(body),
         actos |-> Join(Actos(body), <<"|">>),
         hoja_registral |->
            IF mr # NoMatch THEN Set(Strip(Group(body, mr, 5))) ELSE Unset,
         tomo |-> IF mr # NoMatch THEN Set(Group(body, mr, 1)) ELSE Unset,
         inscripcion |-> IF mr # NoMatch THEN Set(Group(body, mr, 6)) ELSE Unset,
         fecha_inscripcion |->
            IF mr # NoMatch THEN Set(Group(body, mr, 7)) ELSE Unset]

(***************************************************************************)
(* parse_single_pdf: the officers of the body                              *)
(***************************************************************************)
\* (?<=\.\s)([A-Z][A-Za-za'e'i'o'u'n~.\s/\-\d=]{0,25}?):\s*
\* ([A-ZA'E'I'O'U'N~][A-ZA'E'I'O'U'N~\d\s;,.\-]+?)(?:\.\s|$)
CARGO_RE ==
    Cat(<<Behind2({"."}, Space),
          Grp(Cat(<<In(AsciiUpper),
                    RepLazy(In(AsciiUpper \cup AsciiLower \cup AccentLower
                               \cup {"n~", ".", "/", "-", "="} \cup Space
                               \cup Digit), 0, 25)>>)),
          In({":"}), Star(In(Space)),
          Grp(Cat(<<In(CapLetter),
                    RepLazy(In(CapLetter \cup Digit \cup Space
                               \cup {";", ",", ".", "-"}), 1, -1)>>)),
          Alt(<<Cat(<<In({"."}), In(Space)>>), Eol>>)>>)

\* a letter of a pattern compiled with re.IGNORECASE
AnyCase(c) == In({c} \cup {d \in AsciiLower : UpperChar(d) = c})

LitAnyCase(p) == Cat([k \in 1..Len(p) |-> AnyCase(p[k])])

\* ^(?:ART(?:ICULO|S)?[\s.\d,]+|CNAE\s|ACTIVIDAD)   re.IGNORECASE
CARGO_EXCLUDE_RE ==
    Alt(<<Cat(<<LitAnyCase(<<"A","R","T">>),
                Opt(Alt(<<LitAnyCase(<<"I","C","U","L","O">>), AnyCase("S")>>)),
                Plus(In(Space \cup Digit \cup {".", ","}))>>),
          Cat(<<LitAnyCase(<<"C","N","A","E">>), In(Space)>>),
          LitAnyCase(<<"A","C","T","I","V","I","D","A","D">>)>>)

\* the first loop of _extract_cargo_and_tipo: the section prefix of c, 0 if none
RECURSIVE PrefixOf(_, _)
PrefixOf(c, k) ==
    IF k > Len(SECTION_KEYS) THEN 0
    ELSE IF \/ StartsWith(c, SECTION_KEYS[k] \o <<".", " ">>)
            \/ StartsWith(c, SECTION_KEYS[k] \o <<".">>)
    THEN k
    ELSE PrefixOf(c, k + 1)

\* a faulty NearestSection: the section whose first occurrence in pre is the
\* earliest
NearestSection_first(pre) ==
    LET found == {k \in 1..Len(SECTION_KEYS) : Find(pre, SECTION_KEYS[k], 0) # -1}
        best == {k \in found : \A j \in found :
                    Find(pre, SECTION_KEYS[k], 0) <= Find(pre, SECTION_KEYS[j], 0)}
    IN  IF found = {} THEN 0
        ELSE CHOOSE k \in best : \A j \in best : k <= j

\* max(positions, key=positions.get): the first key, in insertion order,
\* whose last occurrence in pre is the latest; 0 when positions is empty
NearestSection(pre) ==
    LET found == {k \in 1..Len(SECTION_KEYS) : RFind(pre, SECTION_KEYS[k]) # -1}
        best == {k \in found : \A j \in found :
                    RFind(pre, SECTION_KEYS[j]) <= RFind(pre, SECTION_KEYS[k])}
    IN  IF found = {} THEN 0
        ELSE CHOOSE k \in best : \A j \in best : k <= j

_extract_cargo_and_tipo(raw_cargo, body, match_start) ==
    LET c == Strip(raw_cargo)
        p == PrefixOf(c, 1)
        n == NearestSection(Slice(body, 0, match_start))
    IN  IF p # 0
        THEN [cargo |-> Strip(LStripSet(Strip(Slice(c, Len(SECTION_KEYS[p]), Len(c))),
                                        {".", " "})),
              tipo |-> SECTION_MAP(SECTION_KEYS[p])]
        ELSE IF n # 0
        THEN [cargo |-> c, tipo |-> SECTION_MAP(SECTION_KEYS[n])]
        ELSE [cargo |-> c, tipo |-> "nombramiento"]

\* s.split(): the runs of characters that are not whitespace
RECURSIVE SplitWords(_)
SplitWords(s) ==
    LET t == LStripSet(s, Space)
        n == IF \E k \in 1..Len(t) : t[k] \in Space
             THEN (CHOOSE k \in 1..Len(t) :
                     t[k] \in Space /\ \A j \in 1..(k - 1) : t[j] \notin Space) - 1
             ELSE Len(t)
    IN  IF t = <<>> THEN <<>>
        ELSE <<SubSeq(t, 1, n)>> \o SplitWords(Slice(t, n, Len(t)))

\* words: the tokens of personas_raw longer than one character
NameWords(personas_raw) ==
    SelectSeq(SplitWords(Replace(Replace(personas_raw, <<";">>, <<" ">>),
                                 <<".">>, <<" ">>)),
              LAMBDA w : Len(w) > 1)

\* a faulty IsExcluded: the stoplist alone
IsExcluded_stoplist_only(label) == label \in CARGO_EXCLUDE

IsExcluded(label) ==
    label \in CARGO_EXCLUDE \/ MatchAt(CARGO_EXCLUDE_RE, label, 0) # NoMatch

\* a faulty CargoRows: a row for every piece of the name run, the empty
\* ones too
CargoRows_empty_names(row, body, cm) ==
    LET raw_cargo == Strip(Group(body, cm, 1))
        personas_raw == Strip(Group(body, cm, 2))
        ct == _extract_cargo_and_tipo(raw_cargo, body, cm.s)
        personas == [k \in 1..Len(SplitChar(personas_raw, ";")) |->
                        Strip(SplitChar(personas_raw, ";")[k])]
    IN  IF IsExcluded(raw_cargo) THEN <<>>
        ELSE IF Len(NameWords(personas_raw)) < 2 THEN <<>>
        ELSE IF ct.cargo = <<>> \/ IsExcluded(ct.cargo) THEN <<>>
        ELSE [k \in 1..Len(personas) |->
                [fecha_borme |-> row.fecha_borme,
                 num_entrada |-> row.num_entrada,
                 empresa |-> row.empresa,
                 empresa_norm |-> row.empresa_norm,
                 provincia |-> row.provincia,
                 hoja_registral |->
                    IF row.hoja_registral = Unset THEN <<>>
                    ELSE row.hoja_registral[1],
                 tipo_acto |-> ct.tipo,
                 cargo |-> ct.cargo,
                 persona |-> personas[k],
                 pdf_filename |-> row.pdf_filename]]

\* the rows of one CARGO_RE match cm
CargoRows(row, body, cm) ==
    LET raw_cargo == Strip(Group(body, cm, 1))
        personas_raw == Strip(Group(body, cm, 2))
        ct == _extract_cargo_and_tipo(raw_cargo, body, cm.s)
        personas == SelectSeq([k \in 1..Len(SplitChar(personas_raw, ";")) |->
                                  Strip(SplitChar(personas_raw, ";")[k])],
                              LAMBDA p : p # <<>>)
    IN  IF IsExcluded(raw_cargo) THEN <<>>
        ELSE IF Len(NameWords(personas_raw)) < 2 THEN <<>>
        ELSE IF ct.cargo = <<>> \/ IsExcluded(ct.cargo) THEN <<>>
        ELSE [k \in 1..Len(personas) |->
                [fecha_borme |-> row.fecha_borme,
                 num_entrada |-> row.num_entrada,
                 empresa |-> row.empresa,
                 empresa_norm |-> row.empresa_norm,
                 provincia |-> row.provincia,
                 hoja_registral |->
                    IF row.hoja_registral = Unset THEN <<>>
                    ELSE row.hoja_registral[1],
                 tipo_acto |-> ct.tipo,
                 cargo |-> ct.cargo,
                 persona |-> personas[k],
                 pdf_filename |-> row.pdf_filename]]

\* the for loop over CARGO_RE.finditer(body)
RECURSIVE CargoRowsAll(_, _, _, _)
CargoRowsAll(row, body, cms, k) ==
    IF k > Len(cms) THEN <<>>
    ELSE CargoRows(row, body, cms[k]) \o CargoRowsAll(row, body, cms, k + 1)

EntryCargos(row, body) == CargoRowsAll(row, body, FindIter(CARGO_RE, body, 0), 1)

(***************************************************************************)
(* The state: one document going through _process_one / parse_single_pdf,  *)
(* and run_batch collecting its result.                                    *)
(***************************************************************************)
VARIABLES
    doc,              \* the document: its path parts, whether pdfplumber can
                      \* read it, and the raw text of its pages
    pc,               \* "start", "loop", "returned", "collected", "done"
    meta,             \* fname, tipo, numero, cod_prov, fecha_borme
    text,             \* the cleaned text
    splits,           \* list(ENTRY_START_RE.finditer(text))
    i,                \* the entry the loop is at, from 1
    provincia_actual,
    entries,          \* history: start, end, block, body_pos, body and the
                      \* number of officer rows of each entry the loop has
                      \* handled, and of each CARGO_RE match of its body the
                      \* start, raw_cargo, personas_raw and the rows appended
    empresas_rows,
    cargos_rows,
    result,           \* what _process_one returned: <<>> or <<r>>
    batch_empresas,   \* run_batch
    batch_cargos,
    done_set,
    errors,
    pending,          \* run_batch: the documents whose future has not
                      \* completed yet
    arrived,          \* history: the results in the order of as_completed
    out,              \* <<>>, or <<o>> with the rows of the two data frames
                      \* run_batch writes
    name,             \* a company name handed to a normalizer
    fn,               \* the normalizer: "extract" is _normalize_empresa,
                      \* "match" is normalize_empresa, "none" when no name is
    norm,             \* the results of applying fn to name once, twice
    args,             \* borme_scraper: start, end, workers, resume
    s_pc,             \* "idle", "running", "draining", "exiting", "complete"
    state,            \* ScraperState.state in memory
    state_file,       \* scraper_state.json: <<>>, or <<s>> with the state saved
    work_days,        \* the days of the run not handled yet, in order
    futures,          \* the days whose future has completed and that
                      \* as_completed has not handed out yet, in order
    processed,        \* history: the days scrape_day has handled, all runs
    g_pc,             \* scraper_galicia: "idle", "call", "returned"
    retry,            \* the argument retry of the get_json that is running
    n_requests,       \* Session.n_requests
    n_errors,         \* Session.n_errors
    returned,         \* what the last call of get_json returned
    responses,        \* history: the outcome of each self.s.get of the call
    calls             \* history: n_requests and n_errors when the call began,
                      \* and the number of calls begun

pvars == <<doc, pc, meta, text, splits, i, provincia_actual, entries,
           empresas_rows, cargos_rows, result, batch_empresas, batch_cargos,
           done_set, errors, pending, arrived, out>>

nvars == <<name, fn, norm>>

svars == <<args, s_pc, state, state_file, work_days, futures, processed>>

gvars == <<g_pc, retry, n_requests, n_errors, returned, responses, calls>>

vars == <<pvars, nvars, svars, gvars>>

NoMeta == [fname |-> <<>>, tipo |-> <<>>, numero |-> 0, cod_prov |-> <<>>,
           fecha_borme |-> <<>>]

\* path.name
FName(parts) == parts[Len(parts)]

\* a faulty MetaOf: the region code taken from the issue number
MetaOf_issue_as_region(parts, bm) ==
    [fname |-> FName(parts),
     tipo |-> Group(FName(parts), bm, 1),
     numero |-> ToInt(Group(FName(parts), bm, 3)),
     cod_prov |-> Group(FName(parts), bm, 3),
     fecha_borme |-> FechaFrom(parts, 1, Group(FName(parts), bm, 2))]

\* tipo, numero, cod_prov, provincia_filename and fecha_borme of a path
\* whose name bm matches
MetaOf(parts, bm) ==
    [fname |-> FName(parts),
     tipo |-> Group(FName(parts), bm, 1),
     numero |-> ToInt(Group(FName(parts), bm, 3)),
     cod_prov |-> Group(FName(parts), bm, 4),
     fecha_borme |-> FechaFrom(parts, 1, Group(FName(parts), bm, 2))]

\* a faulty EmptyResult: the empty return reported as a failure
EmptyResult_failed(d) ==
    [e_rows |-> <<>>, c_rows |-> <<>>, path |-> d.parts, ok |-> FALSE]

\* return [], [] seen through _process_one
EmptyResult(d) == [e_rows |-> <<>>, c_rows |-> <<>>, path |-> d.parts, ok |-> TRUE]

\* a faulty EntryNum: match.group(0), the whole marker
EntryNum_whole_marker(t, m) == Slice(t, m.s, m.e)

\* entry_num = match.group(1)
EntryNum(t, m) == Group(t, m, 1)

\* a faulty EntryStart: match.start(), so that the entry holds its marker
EntryStart_at_marker(t, sp, k) == sp[k].s

\* start = match.end()
EntryStart(t, sp, k) == sp[k].e

\* a faulty EntryEnd: splits[i + 1].end(), so that the entry runs over the
\* next marker
EntryEnd_over_marker(t, sp, k) ==
    IF k + 1 <= Len(sp) THEN sp[k + 1].e ELSE Len(t)

\* end = splits[i + 1].start() if i + 1 < len(splits) else len(text)
EntryEnd(t, sp, k) == IF k + 1 <= Len(sp) THEN sp[k + 1].s ELSE Len(t)

\* run_batch with the futures of d and of the documents of rest submitted,
\* and the worker of d at the start of parse_single_pdf
PoolInit(d, rest) ==
    /\ doc = d
    /\ pc = "start"
    /\ meta = NoMeta
    /\ text = <<>>
    /\ splits = <<>>
    /\ i = 0
    /\ provincia_actual = <<>>
    /\ entries = <<>>
    /\ empresas_rows = <<>>
    /\ cargos_rows = <<>>
    /\ result = <<>>
    /\ batch_empresas = <<>>
    /\ batch_cargos = <<>>
    /\ done_set = {}
    /\ errors = <<>>
    /\ pending = rest
    /\ arrived = <<>>
    /\ out = <<>>

StateInit(d) == PoolInit(d, {})

\* parse_single_pdf up to the loop; bm, cleaned and sp are bound to the
\* values the assignments give them
ParseStart ==
    /\ pc = "start"
    /\ \E bm \in {MatchAt(FNAME_RE, FName(doc.parts), 0)} :
       \E cleaned \in {_clean(doc.raw)} :
       \E sp \in {FindIter(ENTRY_START_RE, cleaned, 0)} :
           IF bm = NoMatch \/ ~doc.readable
           THEN /\ result' = <<EmptyResult(doc)>>
                /\ pc' = "returned"
                /\ UNCHANGED <<meta, text, splits, i, provincia_actual>>
           ELSE /\ meta' = MetaOf(doc.parts, bm)
                /\ text' = cleaned
                /\ splits' = sp
                /\ IF sp = <<>>
                   THEN /\ result' = <<EmptyResult(doc)>>
                        /\ pc' = "returned"
                        /\ UNCHANGED <<i, provincia_actual>>
                   ELSE /\ provincia_actual' = COD_PROVINCIA(meta'.cod_prov)
                        /\ i' = 1
                        /\ pc' = "loop"
                        /\ UNCHANGED result
    /\ UNCHANGED <<doc, entries, empresas_rows, cargos_rows, batch_empresas,
                   batch_cargos, done_set, errors, pending, arrived, out,
                   nvars, svars, gvars>>

\* one pass of the loop over splits; each name is bound to the value its
\* assignment gives it
ParseEntry ==
    /\ pc = "loop"
    /\ i <= Len(splits)
    /\ \E start \in {EntryStart(text, splits, i)} :
       \E end \in {EntryEnd(text, splits, i)} :
       \E block \in {Block(text, start, end)} :
       \E body_pos \in {BodyPos(block)} :
       \E empresa \in {Empresa(block, body_pos)} :
       \E body \in {Body(block, body_pos)} :
       \E prov \in {ProvinciaAt(text, splits, i, provincia_actual)} :
       \E row \in {EmpresaRow(meta, EntryNum(text, splits[i]), empresa, prov,
                              body)} :
       \E cargos \in {EntryCargos(row, body)} :
       \E cms \in {FindIter(CARGO_RE, body, 0)} :
           /\ provincia_actual' = prov
           /\ entries' = Append(entries,
                    [start |-> start, end |-> end, block |-> block,
                     body_pos |-> body_pos, body |-> body,
                     n_cargos |-> Len(cargos),
                     matches |-> [k \in 1..Len(cms) |->
                        [start |-> cms[k].s,
                         raw_cargo |-> Strip(Group(body, cms[k], 1)),
                         personas_raw |-> Strip(Group(body, cms[k], 2)),
                         rows |-> CargoRows(row, body, cms[k])]]])
           /\ empresas_rows' = Append(empresas_rows, row)
           /\ cargos_rows' = cargos_rows \o cargos
    /\ i' = i + 1
    /\ UNCHANGED <<doc, pc, meta, text, splits, result, batch_empresas,
                   batch_cargos, done_set, errors, pending, arrived, out,
                   nvars, svars, gvars>>

\* return empresas_rows, cargos_rows, seen through _process_one
ParseReturn ==
    /\ pc = "loop"
    /\ i > Len(splits)
    /\ result' = <<[e_rows |-> empresas_rows, c_rows |-> cargos_rows,
                     path |-> doc.parts, ok |-> TRUE]>>
    /\ pc' = "returned"
    /\ UNCHANGED <<doc, meta, text, splits, i, provincia_actual, entries,
                   empresas_rows, cargos_rows, batch_empresas, batch_cargos,
                   done_set, errors, pending, arrived, out, nvars, svars, gvars>>

\* a faulty Collect: a failed result taken as done
Collect_errors_as_done ==
    /\ pc = "returned"
    /\ batch_empresas' = batch_empresas \o result[1].e_rows
    /\ batch_cargos' = batch_cargos \o result[1].c_rows
    /\ done_set' = done_set \cup {result[1].path}
    /\ UNCHANGED errors
    /\ arrived' = Append(arrived, result[1])
    /\ pc' = "collected"
    /\ UNCHANGED <<doc, meta, text, splits, i, provincia_actual, entries,
                   empresas_rows, cargos_rows, result, pending, out, nvars, svars, gvars>>

\* run_batch: the body of the loop over as_completed(futures)
Collect ==
    /\ pc = "returned"
    /\ IF result[1].ok
       THEN /\ batch_empresas' = batch_empresas \o result[1].e_rows
            /\ batch_cargos' = batch_cargos \o result[1].c_rows
            /\ done_set' = done_set \cup {result[1].path}
            /\ UNCHANGED errors
       ELSE /\ errors' = Append(errors, result[1].path)
            /\ UNCHANGED <<batch_empresas, batch_cargos, done_set>>
    /\ arrived' = Append(arrived, result[1])
    /\ pc' = "collected"
    /\ UNCHANGED <<doc, meta, text, splits, i, provincia_actual, entries,
                   empresas_rows, cargos_rows, result, pending, out, nvars, svars, gvars>>

Next == ParseStart \/ ParseEntry \/ ParseReturn \/ Collect

(***************************************************************************)
(* The normalizers as functions of a name: name is the input, norm the     *)
(* results of applying the normalizer fn to it once, twice                 *)
(***************************************************************************)
(***************************************************************************)
(* run_batch: the futures as they complete, and the data frames            *)
(***************************************************************************)
\* as_completed(futures): the next future to complete is that of any
\* document still pending; its worker runs parse_single_pdf from the start
NextFuture ==
    /\ pc = "collected"
    /\ \E d \in pending :
          /\ doc' = d
          /\ pending' = pending \ {d}
    /\ pc' = "start"
    /\ meta' = NoMeta
    /\ text' = <<>>
    /\ splits' = <<>>
    /\ i' = 0
    /\ provincia_actual' = <<>>
    /\ entries' = <<>>
    /\ empresas_rows' = <<>>
    /\ cargos_rows' = <<>>
    /\ result' = <<>>
    /\ UNCHANGED <<batch_empresas, batch_cargos, done_set, errors, arrived,
                   out, nvars, svars, gvars>>

NaT == <<>>

IsLeap(y) == y % 4 = 0 /\ (y % 100 # 0 \/ y % 400 = 0)

DaysIn(y, m) ==
    IF m = 2 THEN (IF IsLeap(y) THEN 29 ELSE 28)
    ELSE IF m \in {4, 6, 9, 11} THEN 30 ELSE 31

\* pd.to_datetime(s, errors="coerce") of a text parse_single_pdf makes for
\* fecha_borme: YYYY-MM-DD with a month and a day of the calendar is
\* <<year, month, day>>, a text that is no date is NaT
ToDatetime(s) ==
    IF /\ Len(s) = 10
       /\ s[5] = "-"
       /\ s[8] = "-"
       /\ \A k \in {1, 2, 3, 4, 6, 7, 9, 10} : s[k] \in Digit
    THEN LET y == ToInt(SubSeq(s, 1, 4))
             m == ToInt(SubSeq(s, 6, 7))
             d == ToInt(SubSeq(s, 9, 10))
         IN  IF y \in 1678..2261 /\ m \in 1..12 /\ d \in 1..DaysIn(y, m)
             THEN <<y, m, d>>
             ELSE NaT
    ELSE NaT

\* df["fecha_borme"] = pd.to_datetime(df["fecha_borme"], errors="coerce")
WithDatetime(rows) ==
    [k \in 1..Len(rows) |-> [rows[k] EXCEPT !.fecha_borme = ToDatetime(@)]]

\* subset=["fecha_borme", "num_entrada", "empresa_norm"]
EmpresaKey(r) == <<r.fecha_borme, r.num_entrada, r.empresa_norm>>

\* subset=["fecha_borme", "num_entrada", "cargo", "persona", "tipo_acto"]
CargoKey(r) == <<r.fecha_borme, r.num_entrada, r.cargo, r.persona, r.tipo_acto>>

EmpresaKeys(rows) == [k \in 1..Len(rows) |-> EmpresaKey(rows[k])]

CargoKeys(rows) == [k \in 1..Len(rows) |-> CargoKey(rows[k])]

\* df.drop_duplicates(subset=..., keep="first"), keys[k] being the values
\* of row k in the columns of subset: the rows no earlier row has the key
\* of, in order
DropDuplicates(rows, keys) ==
    LET keep == {k \in 1..Len(rows) :
                    \A j \in 1..(k - 1) : keys[j] # keys[k]}
    IN  [n \in 1..Cardinality(keep) |->
            rows[CHOOSE k \in keep : Cardinality({j \in keep : j < k}) = n - 1]]

\* the rows of the two parquet files on disk; a file that was never written
\* has none
Persisted == IF out = <<>> THEN [empresas |-> <<>>, cargos |-> <<>>] ELSE out[1]

\* run_batch after the loop over the batches: the data frames built,
\* converted, deduplicated and written, each when it has rows; a frame
\* without rows leaves its file as it is; capital_euros is a float already
\* and pd.to_numeric leaves it as it is
BuildFrames ==
    /\ pc = "collected"
    /\ pending = {}
    /\ \E es \in {WithDatetime(batch_empresas)} :
       \E cs \in {WithDatetime(batch_cargos)} :
           out' = <<[empresas |-> IF Len(es) > 0
                                  THEN DropDuplicates(es, EmpresaKeys(es))
                                  ELSE Persisted.empresas,
                     cargos |-> IF Len(cs) > 0
                                THEN DropDuplicates(cs, CargoKeys(cs))
                                ELSE Persisted.cargos]>>
    /\ pc' = "done"
    /\ UNCHANGED <<doc, meta, text, splits, i, provincia_actual, entries,
                   empresas_rows, cargos_rows, result, batch_empresas,
                   batch_cargos, done_set, errors, pending, arrived, nvars, svars, gvars>>

BatchNext == Next \/ NextFuture \/ BuildFrames

\* except Exception: return [], [], pdf_path_str, False
FailedResult(d) == [e_rows |-> <<>>, c_rows |-> <<>>, path |-> d.parts, ok |-> FALSE]

\* _process_one when parse_single_pdf raises, at its start or in its loop:
\* the rows it had built are lost
ProcessRaises ==
    /\ pc \in {"start", "loop"}
    /\ result' = <<FailedResult(doc)>>
    /\ pc' = "returned"
    /\ UNCHANGED <<doc, meta, text, splits, i, provincia_actual, entries,
                   empresas_rows, cargos_rows, batch_empresas, batch_cargos,
                   done_set, errors, pending, arrived, out, nvars, svars, gvars>>

FailNext == BatchNext \/ ProcessRaises

\* run_batch started again with resume, after a run that ended or that was
\* stopped between the writing of the progress file and the writing of the
\* data frames: done_set is read from the progress file, New are the
\* documents find_borme_a_pdfs lists that are not in it, and the lists of
\* rows start empty; with nothing pending the run returns at once
Resume(New) ==
    /\ pc \in {"collected", "done"}
    /\ pending = {}
    /\ \A d \in New : d.parts \notin done_set
    /\ IF New = {}
       THEN /\ pc' = "done"
            /\ UNCHANGED <<pending, batch_empresas, batch_cargos, errors>>
       ELSE /\ pc' = "collected"
            /\ pending' = New
            /\ batch_empresas' = <<>>
            /\ batch_cargos' = <<>>
            /\ errors' = <<>>
    /\ UNCHANGED <<doc, meta, text, splits, i, provincia_actual, entries,
                   empresas_rows, cargos_rows, result, done_set, arrived,
                   out, nvars, svars, gvars>>

NormIdle == name = <<>> /\ fn = "none" /\ norm = <<>>

\* last_completed_date None; the days are numbered from a Monday, day 0
NoDate == -1

\* ScraperState._load without a file: the date and the counter of the days
\* marked

DefaultState == [last_completed_date |-> NoDate, total_days_processed |-> 0]

\* no scraper is run
ScraperIdle ==
    /\ args = [start |-> 0, end |-> 0, workers |-> 1, resume |-> FALSE]
    /\ s_pc = "idle"
    /\ state = DefaultState
    /\ state_file = <<>>
    /\ work_days = <<>>
    /\ futures = <<>>
    /\ processed = {}

\* Session.__init__, and no call of get_json yet
GaliciaIdle ==
    /\ g_pc = "idle"
    /\ retry = 0
    /\ n_requests = 0
    /\ n_errors = 0
    /\ returned = <<>>
    /\ responses = <<>>
    /\ calls = [n_requests |-> 0, n_errors |-> 0, begun |-> 0]

OthersIdle == ScraperIdle /\ GaliciaIdle

\* empresa_norm = _normalize_empresa(empresa), applied again to its result
NormalizeExtract ==
    /\ fn = "extract"
    /\ Len(norm) < 2
    /\ norm' = Append(norm, _normalize_empresa(IF norm = <<>> THEN name
                                                ELSE norm[Len(norm)]))
    /\ UNCHANGED <<name, fn, pvars, svars, gvars>>

\* df["empresa_norm"] = df["empresa"].apply(normalize_empresa), applied again
\* to its result
NormalizeMatch ==
    /\ fn = "match"
    /\ Len(norm) < 2
    /\ norm' = Append(norm, normalize_empresa(IF norm = <<>> THEN name
                                              ELSE norm[Len(norm)]))
    /\ UNCHANGED <<name, fn, pvars, svars, gvars>>

(***************************************************************************)
(* Inputs                                                                  *)
(***************************************************************************)
RECURSIVE ConcatAll(_)
ConcatAll(ss) == IF ss = <<>> THEN <<>> ELSE Head(ss) \o ConcatAll(Tail(ss))

\* the strings made of at most n of the given pieces
Strings(pieces, n) ==
    {ConcatAll(f) : f \in UNION {[1..k -> pieces] : k \in 0..n}}

\* the texts made of at most n of the given lines
Texts(lines, n) ==
    {Join(f, <<"\n">>) : f \in UNION {[1..k -> lines] : k \in 0..n}}

MaxNamePieces == 3

NamePieces ==
    {<<"X">>, <<" ","S","A">>, <<" ","S","L">>, <<" ","s",".","l">>, <<".">>, <<";">>,
     <<"-">>}

Names == Strings(NamePieces, MaxNamePieces)

MaxLines == 3

Lines ==
    {<<"M","A","D","R","I","D">>, <<" ","L","U","G","O">>, <<"1","2","3","4"," ","-"," ","A","C","M","E"," ","S","L",".">>,
     <<"5","6","7","8","9","0","1","-","B","."," ","F","u","s","i","o'","n",".">>, <<"1","2","3","4","5","6","7","8"," ","-"," ","X">>, <<"1","2","3","4">>,
     <<"-"," ","X">>, <<"E","m","p","r","e","s","a","r","i","o","s">>, <<"X"," ","1","2","3","4"," ","-"," ","Y">>}

MaxPieces == 4

BlockPieces ==
    {<<"A","C","M","E">>, <<"."," ">>, <<".">>, <<"S","o","c","i","e","d","a","d">>, <<"F","u","s","i","o'","n">>,
     <<"F","e"," ","d","e"," ","e","r","r","a","t","a","s">>}

MainPath ==
    <<<<"b","o","r","m","e","_","p","d","f","s">>, <<"2","0","2","4">>, <<"3">>, <<"1","5">>,
      <<"B","O","R","M","E","-","A","-","2","0","2","4","-","5","2","-","0","8",".","p","d","f">>>>

\* a region code COD_PROVINCIA does not list, and no date in the path
OtherPath == <<<<"b","o","r","m","e","_","p","d","f","s">>, <<"B","O","R","M","E","-","A","-","2","0","2","3","-","7","-","7","7",".","p","d","f">>>>

\* a name find_borme_a_pdfs lists and parse_single_pdf does not match
BadNamePath == <<<<"b","o","r","m","e","_","p","d","f","s">>, <<"B","O","R","M","E","-","A","-","x",".","p","d","f">>>>

\* documents whose text is never read, and one under the other path
OddDocs ==
    {[parts |-> MainPath, readable |-> FALSE, raw |-> <<>>],
     [parts |-> BadNamePath, readable |-> TRUE, raw |-> <<>>],
     [parts |-> OtherPath, readable |-> TRUE,
      raw |-> <<"M","A","D","R","I","D",".","\n","1","2","3","4"," ","-"," ","A","C","M","E"," ","S","L",".">>]}

SegDocs ==
    {[parts |-> MainPath, readable |-> TRUE, raw |-> r] :
        r \in Texts(Lines, MaxLines)} \cup OddDocs

BlockDocs ==
    {[parts |-> MainPath, readable |-> TRUE, raw |-> <<"1","2","3","4"," ","-"," ">> \o b] :
        b \in Strings(BlockPieces, MaxPieces)} \cup OddDocs

MaxActPieces == 4

ActPieces ==
    {<<"C","o","n","s","t","i","t","u","c","i","o'","n">>, <<"D","i","s","o","l","u","c","i","o'","n">>,
     <<"C","a","m","b","i","o"," ","d","e"," ","d","o","m","i","c","i","l","i","o"," ","s","o","c","i","a","l">>,
     <<"D","o","m","i","c","i","l","i","o",":"," ","X">>, <<"."," ">>, <<":">>}

\* documents of one entry whose body is made of act labels
ActDocs ==
    {[parts |-> MainPath, readable |-> TRUE,
      raw |-> <<"1","2","3","4"," ","-"," ","A","C","M","E","."," ">> \o b] :
        b \in Strings(ActPieces, MaxActPieces)}

MaxRegPieces == 4

RegPieces ==
    {<<"D","a","t","o","s"," ","r","e","g","i","s","t","r","a","l","e","s","."," ","T"," ","1",","," ">>, <<"L"," ","2",","," ">>, <<"L"," ",","," ">>,
     <<"F"," ","3",","," ","S"," ","8",","," ","H"," ","M"," ","4",","," ","I","/","A"," ","5"," ">>, <<"(","1",".","0","2",".","2","4",")",".">>, <<"(","1",".","2",".","2","4",")",".">>}

\* documents of one entry whose body is made of the parts of a registry block
RegDocs ==
    {[parts |-> MainPath, readable |-> TRUE,
      raw |-> <<"1","2","3","4"," ","-"," ","A","C","M","E","."," ">> \o b] :
        b \in Strings(RegPieces, MaxRegPieces)}

MaxCapPieces == 4

CapPieces ==
    {<<"C","a","p","i","t","a","l",":"," ">>, <<"3",".","0","1","2",",","5","0">>, <<",","5">>, <<".">>, <<" ","E","u","r","o","s",".">>,
     <<"C","a","p","i","t","a","l",":"," ","7"," ","E","u","r","o","s",".">>}

\* documents of one entry whose body is made of the parts of a capital block
CapDocs ==
    {[parts |-> MainPath, readable |-> TRUE,
      raw |-> <<"1","2","3","4"," ","-"," ","A","C","M","E","."," ">> \o b] :
        b \in Strings(CapPieces, MaxCapPieces)}

MaxCargoPieces == 3

CargoPieces ==
    {<<"N","o","m","b","r","a","m","i","e","n","t","o","s","."," ">>, <<"C","e","s","e","s","/","D","i","m","i","s","i","o","n","e","s","."," ">>,
     <<"A","d","m","."," ","U","n","i","c","o",":"," ","P","E","R","E","Z"," ","J","U","A","N",";",";"," ","L","O","P","E","Z"," ","A","N","A","."," ">>,
     <<"A","p","o","d","e","r","a","d","o",":"," ","A"," ","B","."," ">>, <<"D","o","m","i","c","i","l","i","o",":"," ","C","A","L","L","E"," ","M","A","Y","O","R","."," ">>,
     <<"A","r","t","."," ","2",":"," ","T","E","X","T","O"," ","L","A","R","G","O","."," ">>, <<"C","a","p","i","t","a","l",":"," ","O","C","H","O"," ","M","I","L","."," ">>,
     <<":"," ","A","B"," ","C","D","."," ">>,
     <<"D","a","t","o","s"," ","r","e","g","i","s","t","r","a","l","e","s","."," ","T"," ","1",","," ","L"," ","2",","," ","F"," ","3",","," ","S"," ","8",","," ","H"," ","M"," ","4",","," ","I","/","A"," ","5"," ","(","1",".","0","2",".","2","4",")","."," ">>}

\* documents of one entry whose body is made of section headings,
\* label: NAMES groups and a registry block
CargoDocs ==
    {[parts |-> MainPath, readable |-> TRUE,
      raw |-> <<"1","2","3","4"," ","-"," ","A","C","M","E","."," ">> \o b] :
        b \in Strings(CargoPieces, MaxCargoPieces)}

MaxDocs == 2

\* one entry with an officer, and the same entry twice
OneEntry == <<"1","2","3","4"," ","-"," ","A","C","M","E"," ","S","L","."," ","A","d","m","."," ","U","n","i","c","o",":"," ","P","E","R","E","Z"," ","J","U","A","N",".">>

TwiceEntry == OneEntry \o <<"\n">> \o OneEntry

\* the bulletin of MainPath with its entry twice; a second copy of the file
\* beside it; the bulletin of the next day; two bulletins kept in folders of
\* a year and a month, without a folder for the day
BatchDocs ==
    {[parts |-> MainPath, readable |-> TRUE, raw |-> TwiceEntry],
     [parts |-> <<<<"b","o","r","m","e","_","p","d","f","s">>, <<"2","0","2","4">>, <<"3">>, <<"1","5">>,
                  <<"B","O","R","M","E","-","A","-","2","0","2","4","-","5","2","-","0","8","(","1",")",".","p","d","f">>>>,
      readable |-> TRUE, raw |-> OneEntry],
     [parts |-> <<<<"b","o","r","m","e","_","p","d","f","s">>, <<"2","0","2","4">>, <<"3">>, <<"1","6">>,
                  <<"B","O","R","M","E","-","A","-","2","0","2","4","-","5","3","-","0","8",".","p","d","f">>>>,
      readable |-> TRUE, raw |-> OneEntry],
     [parts |-> <<<<"b","o","r","m","e","_","p","d","f","s">>, <<"2","0","2","4">>, <<"3">>, <<"B","O","R","M","E","-","A","-","2","0","2","4","-","5","2","-","0","8",".","p","d","f">>>>,
      readable |-> TRUE, raw |-> OneEntry],
     [parts |-> <<<<"b","o","r","m","e","_","p","d","f","s">>, <<"2","0","2","4">>, <<"4">>, <<"B","O","R","M","E","-","A","-","2","0","2","4","-","7","0","-","0","8",".","p","d","f">>>>,
      readable |-> TRUE, raw |-> OneEntry]}

\* all_pdfs: at most MaxDocs documents, of different paths
Pools == {P \in SUBSET BatchDocs : P # {} /\ Cardinality(P) <= MaxDocs}

\* a bulletin, the bulletins of the two next days, of which the first cannot
\* be read, and a file whose name parse_single_pdf does not match
FailDocs ==
    {[parts |-> MainPath, readable |-> TRUE, raw |-> OneEntry],
     [parts |-> <<<<"b","o","r","m","e","_","p","d","f","s">>, <<"2","0","2","4">>, <<"3">>, <<"1","6">>,
                  <<"B","O","R","M","E","-","A","-","2","0","2","4","-","5","3","-","0","8",".","p","d","f">>>>,
      readable |-> FALSE, raw |-> <<>>],
     [parts |-> <<<<"b","o","r","m","e","_","p","d","f","s">>, <<"2","0","2","4">>, <<"3">>, <<"1","7">>,
                  <<"B","O","R","M","E","-","A","-","2","0","2","4","-","5","4","-","0","8",".","p","d","f">>>>,
      readable |-> TRUE, raw |-> OneEntry],
     [parts |-> BadNamePath, readable |-> TRUE, raw |-> OneEntry]}

FailPools == {P \in SUBSET FailDocs : P # {} /\ Cardinality(P) <= MaxDocs}

MaxCleanLines == 3

\* an entry, a banner, a page counter behind a blank, a line that only
\* begins as a page counter, a footer code, a legal deposit, a section
\* header alone and between blanks, and an empty line
CleanLines ==
    {<<"1","2","3","4"," ","-"," ","A","C","M","E",".">>, <<"B","O","L","E","T","I'","N"," ","O","F","I","C","I","A","L"," ","D","E","L"," ","R","E","G","I","S","T","R","O"," ","M","E","R","C","A","N","T","I","L">>,
     <<" ","N","u'","m","."," ","5","2"," ","P","a'","g","."," ","3">>, <<"N","u'","m","."," ","5","2">>, <<"0","8","-","2","0","2","4","-","A","-","E","M","R","O","B">>,
     <<"D",".","L",".",":"," ","M","-","5","1","8","8","/","1","9","9","0">>, <<"E","m","p","r","e","s","a","r","i","o","s">>, <<" ","E","m","p","r","e","s","a","r","i","o","s"," ">>, <<>>}

CleanDocs ==
    {[parts |-> MainPath, readable |-> TRUE, raw |-> r] :
        r \in Texts(CleanLines, MaxCleanLines)}

MaxConPieces == 3

ConPieces ==
    {<<"C","o","n","s","t","i","t","u","c","i","o'","n","."," ">>, <<"C","o","m","i","e","n","z","o"," ","d","e"," ","o","p","e","r","a","c","i","o","n","e","s",":"," ","1",".","0","1",".","2","4","."," ">>,
     <<"O","b","j","e","t","o"," ","s","o","c","i","a","l",":"," ","C","O","M","E","R","C","I","O">>, <<"."," ","D","o","m","i","c","i","l","i","o",":"," ","C","A","L","L","E"," ","M","A","Y","O","R">>,
     <<"."," ","C","a","p","i","t","a","l",":"," ","7"," ","E","u","r","o","s",".">>, <<"D","i","s","o","l","u","c","i","o'","n","."," ">>, <<"O","b","j","e","t","o"," ","s","o","c","i","a","l",":">>}

\* documents of one entry whose body is made of acts and of the fields an
\* incorporation brings
ConDocs ==
    {[parts |-> MainPath, readable |-> TRUE,
      raw |-> <<"1","2","3","4"," ","-"," ","A","C","M","E","."," ">> \o b] :
        b \in Strings(ConPieces, MaxConPieces)}

\* the bulletins of three days, each with one entry
ResumeDocs ==
    {[parts |-> MainPath, readable |-> TRUE, raw |-> OneEntry],
     [parts |-> <<<<"b","o","r","m","e","_","p","d","f","s">>, <<"2","0","2","4">>, <<"3">>, <<"1","6">>,
                  <<"B","O","R","M","E","-","A","-","2","0","2","4","-","5","3","-","0","8",".","p","d","f">>>>,
      readable |-> TRUE, raw |-> OneEntry],
     [parts |-> <<<<"b","o","r","m","e","_","p","d","f","s">>, <<"2","0","2","4">>, <<"3">>, <<"1","7">>,
                  <<"B","O","R","M","E","-","A","-","2","0","2","4","-","5","4","-","0","8",".","p","d","f">>>>,
      readable |-> TRUE, raw |-> OneEntry]}

ResumePools == {P \in SUBSET ResumeDocs : Cardinality(P) <= MaxDocs}

(***************************************************************************)
(* borme_scraper.py: run                                                   *)
(***************************************************************************)
\* is_publishing_day: Monday to Friday
is_publishing_day(d) == d % 7 < 5

\* work_days: the publishing days of date_range(start, end)
RECURSIVE WorkDays(_, _)
WorkDays(start, end) ==
    IF start > end THEN <<>>
    ELSE (IF is_publishing_day(start) THEN <<start>> ELSE <<>>)
             \o WorkDays(start + 1, end)

\* ScraperState.mark_completed, the state part
mark_completed(st, d) ==
    [st EXCEPT !.last_completed_date = d, !.total_days_processed = @ + 1]

\* ScraperState.mark_completed, the file part: saved every 10 days
SavedEvery10(st, file) ==
    IF st.total_days_processed % 10 = 0 THEN <<st>> ELSE file

\* the list without its k-th element
Without(s, k) == SubSeq(s, 1, k - 1) \o SubSeq(s, k + 1, Len(s))

\* the runs are not started any more once this many days have been marked
MaxProcessed == 10

\* run, up to the try: the state loaded, the start moved behind the last
\* completed date under --resume, the return when the range is over, the
\* work days listed
ScraperRun ==
    /\ s_pc \in {"idle", "complete"}
    /\ LET st == IF state_file = <<>> THEN DefaultState ELSE state_file[1]
           resume_from == st.last_completed_date + 1
           start == IF /\ args.resume
                       /\ st.last_completed_date # NoDate
                       /\ resume_from > args.start
                    THEN resume_from ELSE args.start
       IN  /\ st.total_days_processed < MaxProcessed
           /\ state' = st
           /\ futures' = <<>>
           /\ IF start > args.end
              THEN s_pc' = "complete" /\ work_days' = <<>>
              ELSE s_pc' = "running" /\ work_days' = WorkDays(start, args.end)
    /\ UNCHANGED <<args, state_file, processed, pvars, nvars, gvars>>

\* the sequential loop, one turn: process_day and mark_completed
ProcessDay ==
    /\ s_pc = "running"
    /\ args.workers <= 1
    /\ work_days # <<>>
    /\ processed' = processed \cup {Head(work_days)}
    /\ state' = mark_completed(state, Head(work_days))
    /\ state_file' = SavedEvery10(state', state_file)
    /\ work_days' = Tail(work_days)
    /\ UNCHANGED <<args, s_pc, futures, pvars, nvars, gvars>>

\* process_day(d) ends in a worker of the pool: d is one of the first
\* max_workers days submitted and not ended, and its future completes
FutureDone(d) ==
    /\ s_pc \in {"running", "draining", "exiting"}
    /\ args.workers > 1
    /\ \E k \in 1..Len(work_days) :
          /\ k <= args.workers
          /\ work_days[k] = d
          /\ work_days' = Without(work_days, k)
    /\ processed' = processed \cup {d}
    /\ futures' = Append(futures, d)
    /\ UNCHANGED <<args, s_pc, state, state_file, pvars, nvars, gvars>>

\* the loop over as_completed(futures), one turn: mark_completed
AsCompleted ==
    /\ s_pc = "running"
    /\ args.workers > 1
    /\ futures # <<>>
    /\ state' = mark_completed(state, Head(futures))
    /\ state_file' = SavedEvery10(state', state_file)
    /\ futures' = Tail(futures)
    /\ UNCHANGED <<args, s_pc, work_days, processed, pvars, nvars, gvars>>

\* KeyboardInterrupt in the main thread: in the sequential loop the finally
\* clause saves the state and the run is over; in the pool the with
\* statement waits for the workers first
KeyboardInterrupt ==
    /\ s_pc = "running"
    /\ IF args.workers <= 1
       THEN s_pc' = "idle" /\ state_file' = <<state>> /\ work_days' = <<>>
       ELSE s_pc' = "draining" /\ UNCHANGED <<state_file, work_days>>
    /\ UNCHANGED <<args, state, futures, processed, pvars, nvars, gvars>>

\* the finally clause: state.save(), at the end of the loop, or when the
\* workers have ended or a KeyboardInterrupt ends the wait for them, and
\* then the workers go on until the process is over
Finally ==
    /\ \/ /\ s_pc = "running"
          /\ work_days = <<>>
          /\ futures = <<>>
          /\ s_pc' = "complete"
       \/ /\ s_pc = "draining"
          /\ s_pc' = IF work_days = <<>> THEN "idle" ELSE "exiting"
    /\ state_file' = <<state>>
    /\ UNCHANGED <<args, state, work_days, futures, processed, pvars, nvars,
                   gvars>>

\* the process is killed, or it is over with the state saved: the file
\* stays as it is
Killed ==
    /\ s_pc \in {"running", "draining", "exiting"}
    /\ s_pc' = "idle"
    /\ work_days' = <<>>
    /\ futures' = <<>>
    /\ UNCHANGED <<args, state, state_file, processed, pvars, nvars, gvars>>

ScraperNext ==
    \/ ScraperRun
    \/ ProcessDay
    \/ \E d \in 0..args.end : FutureDone(d)
    \/ AsCompleted
    \/ KeyboardInterrupt
    \/ Finally
    \/ Killed

\* the last day of the range
MaxDay == 7

\* --start, --end, --workers, --resume
ScraperArgs ==
    [start : {0, 2}, end : {MaxDay}, workers : {1, 2}, resume : BOOLEAN]

(***************************************************************************)
(* scraper_galicia.py: Session.get_json                                    *)
(***************************************************************************)
MAX_RETRIES == 3

\* Python's None
None == "None"

\* what self.s.get gives: an exception of requests, or a response with a
\* status code and a body
Outcomes ==
    {[exc |-> TRUE, code |-> 0, body |-> ""]}
        \cup {[exc |-> FALSE, code |-> 200, body |-> b] :
                 b \in {"[1]", "null", "<html>"}}
        \cup {[exc |-> FALSE, code |-> c, body |-> ""] :
                 c \in {404, 429, 500, 503}}

\* r.raise_for_status() raises HTTPError
RaisesHTTPError(r) == r.code >= 400 /\ r.code < 600

\* r.json(): <<v>> with the value read, <<>> when the body is no JSON text
\* and json raises
Json(r) ==
    CASE r.body = "[1]" -> <<"[1]">>
      [] r.body = "null" -> <<None>>
      [] OTHER -> <<>>

\* a faulty GetJson: every HTTP error tried again
GetJson_retry_any_status(o) ==
    /\ g_pc = "call"
    /\ n_requests' = n_requests + 1
    /\ responses' = Append(responses, o)
    /\ IF ~o.exc /\ ~RaisesHTTPError(o) /\ Json(o) # <<>>
       THEN /\ returned' = Json(o)
            /\ g_pc' = "returned"
            /\ UNCHANGED <<retry, n_errors>>
       ELSE IF retry < MAX_RETRIES
       THEN /\ retry' = retry + 1
            /\ UNCHANGED <<g_pc, returned, n_errors>>
       ELSE /\ n_errors' = n_errors + 1
            /\ returned' = <<None>>
            /\ g_pc' = "returned"
            /\ UNCHANGED retry
    /\ UNCHANGED <<calls, pvars, nvars, svars>>

\* get_json, from its first line to its return or to the call of itself:
\* o is what self.s.get gives this time
GetJson(o) ==
    /\ g_pc = "call"
    /\ n_requests' = n_requests + 1
    /\ responses' = Append(responses, o)
    /\ IF ~o.exc /\ ~RaisesHTTPError(o) /\ Json(o) # <<>>
       THEN /\ returned' = Json(o)
            /\ g_pc' = "returned"
            /\ UNCHANGED <<retry, n_errors>>
       ELSE IF ~o.exc /\ RaisesHTTPError(o)
       THEN IF (o.code = 429 /\ retry < MAX_RETRIES)
                \/ (o.code >= 500 /\ retry < MAX_RETRIES)
            THEN /\ retry' = retry + 1
                 /\ UNCHANGED <<g_pc, returned, n_errors>>
            ELSE /\ n_errors' = n_errors + 1
                 /\ returned' = <<None>>
                 /\ g_pc' = "returned"
                 /\ UNCHANGED retry
       ELSE IF retry < MAX_RETRIES
       THEN /\ retry' = retry + 1
            /\ UNCHANGED <<g_pc, returned, n_errors>>
       ELSE /\ n_errors' = n_errors + 1
            /\ returned' = <<None>>
            /\ g_pc' = "returned"
            /\ UNCHANGED retry
    /\ UNCHANGED <<calls, pvars, nvars, svars>>

\* the calls a session gets
MaxCalls == 2

\* session.get_json(url, params) called by the scraper
CallGetJson ==
    /\ g_pc \in {"idle", "returned"}
    /\ calls.begun < MaxCalls
    /\ g_pc' = "call"
    /\ retry' = 0
    /\ returned' = <<>>
    /\ responses' = <<>>
    /\ calls' = [n_requests |-> n_requests, n_errors |-> n_errors,
                 begun |-> calls.begun + 1]
    /\ UNCHANGED <<n_requests, n_errors, pvars, nvars, svars>>

GaliciaNext == CallGetJson \/ \E o \in Outcomes : GetJson(o)

(***************************************************************************)
(* Specifications                                                          *)
(***************************************************************************)
\* documents of several lines: segmentation and jurisdiction
Init == (\E d \in SegDocs : StateInit(d)) /\ NormIdle /\ OthersIdle

Spec == Init /\ [][Next]_vars

\* documents of one entry: the name/body boundary
BlockInit == (\E d \in BlockDocs : StateInit(d)) /\ NormIdle /\ OthersIdle

BlockSpec == BlockInit /\ [][Next]_vars

\* names: the two normalizers
NormInit ==
    /\ StateInit([parts |-> <<>>, readable |-> FALSE, raw |-> <<>>])
    /\ name \in Names
    /\ fn \in {"extract", "match"}
    /\ norm = <<>>
    /\ OthersIdle

NormNext == NormalizeExtract \/ NormalizeMatch

NormSpec == NormInit /\ [][NormNext]_vars

\* documents of one entry: the acts of the body
ActInit == (\E d \in ActDocs : StateInit(d)) /\ NormIdle /\ OthersIdle

ActSpec == ActInit /\ [][Next]_vars

\* documents of one entry: the registry block of the body
RegInit == (\E d \in RegDocs : StateInit(d)) /\ NormIdle /\ OthersIdle

RegSpec == RegInit /\ [][Next]_vars

\* documents of one entry: the capital of the body
CapInit == (\E d \in CapDocs : StateInit(d)) /\ NormIdle /\ OthersIdle

CapSpec == CapInit /\ [][Next]_vars

\* documents of one entry: the officers of the body
CargoInit == (\E d \in CargoDocs : StateInit(d)) /\ NormIdle /\ OthersIdle

CargoSpec == CargoInit /\ [][Next]_vars

\* several documents parsed by the workers of run_batch: aggregation and
\* deduplication
BatchInit == (\E P \in Pools : \E d \in P : PoolInit(d, P \ {d})) /\ NormIdle /\ OthersIdle

BatchSpec == BatchInit /\ [][BatchNext]_vars

\* several documents, of which some cannot be read and any may make
\* parse_single_pdf raise
FailInit == (\E P \in FailPools : \E d \in P : PoolInit(d, P \ {d})) /\ NormIdle /\ OthersIdle

FailSpec == FailInit /\ [][FailNext]_vars

\* documents whose pages hold banners, counters, footers and headers: the
\* cleaner
CleanInit == (\E d \in CleanDocs : StateInit(d)) /\ NormIdle /\ OthersIdle

CleanSpec == CleanInit /\ [][Next]_vars

\* documents of one entry: the fields of an incorporation
ConInit == (\E d \in ConDocs : StateInit(d)) /\ NormIdle /\ OthersIdle

ConSpec == ConInit /\ [][Next]_vars

\* runs of run_batch one after the other, the later ones with resume, over
\* a folder that gets new documents between the runs
ResumeInit ==
    (\E P \in ResumePools \ {{}} : \E d \in P : PoolInit(d, P \ {d})) /\ NormIdle /\ OthersIdle

ResumeNext == BatchNext \/ \E New \in ResumePools : Resume(New)

ResumeSpec == ResumeInit /\ [][ResumeNext]_vars

\* runs of the scraper over one range, each up to its end, to a
\* KeyboardInterrupt or to the end of the process
ScraperInit ==
    /\ StateInit([parts |-> <<>>, readable |-> FALSE, raw |-> <<>>])
    /\ NormIdle
    /\ GaliciaIdle
    /\ args \in ScraperArgs
    /\ s_pc = "idle"
    /\ state = DefaultState
    /\ state_file = <<>>
    /\ work_days = <<>>
    /\ futures = <<>>
    /\ processed = {}

ScraperSpec == ScraperInit /\ [][ScraperNext]_vars

\* a session and its calls of get_json
GaliciaInit ==
    /\ StateInit([parts |-> <<>>, readable |-> FALSE, raw |-> <<>>])
    /\ NormIdle
    /\ ScraperIdle
    /\ GaliciaIdle

GaliciaSpec == GaliciaInit /\ [][GaliciaNext]_vars

(***************************************************************************)
(* Properties.  The entry markers and the candidates for the name/body     *)
(* boundary are described here character by character, without the         *)
(* matcher, so that what the parser finds is checked against them.         *)
(***************************************************************************)
Finished == pc \in {"returned", "collected"}

\* how many characters of t, from offset p on, are in cs in a row
SpanIn(t, p, cs) ==
    CHOOSE n \in 0..(Len(t) - p) :
        /\ \A k \in 1..n : t[p + k] \in cs
        /\ p + n = Len(t) \/ t[p + n + 1] \notin cs

\* the least number of the set S, and its j-th least number
Least(S) == CHOOSE x \in S : \A y \in S : x <= y

Nth(S, j) == CHOOSE x \in S : Cardinality({y \in S : y < x}) = j - 1

\* an entry marker starts at offset s of t: a line starts there with 4 to 7
\* digits, then whitespace if any, then a dash
IsMarkerStart(t, s) ==
    /\ s = 0 \/ t[s] = "\n"
    /\ LET d == SpanIn(t, s, Digit)
           w == SpanIn(t, s + d, Space)
       IN  /\ d \in 4..7
           /\ s + d + w < Len(t)
           /\ t[s + d + w + 1] = "-"

MarkerStarts(t) == {s \in 0..(Len(t) - 1) : IsMarkerStart(t, s)}

\* the digits of the marker that starts at s
MarkerDigits(t, s) == SubSeq(t, s + 1, s + SpanIn(t, s, Digit))

\* where the marker that starts at s ends: behind the whitespace that
\* follows its dash
MarkerEnd(t, s) ==
    LET d == SpanIn(t, s, Digit)
        dash == s + d + SpanIn(t, s + d, Space) + 1
    IN  dash + SpanIn(t, dash, Space)

\* the company rows written so far, or returned
CompanyRows ==
    IF pc = "loop" THEN empresas_rows
    ELSE IF result # <<>> THEN result[1].e_rows
    ELSE <<>>

\* C1: _normalize_empresa is idempotent: applied to its own result it
\* returns that result
C1_Idempotent == (fn = "extract" /\ Len(norm) = 2) => norm[2] = norm[1]

\* C2: normalize_empresa is idempotent: applied to its own result it returns
\* that result
C2_Idempotent == (fn = "match" /\ Len(norm) = 2) => norm[2] = norm[1]

\* C3: what normalize_empresa returns ends with no entry of SUFFIXES
C3_NoSuffixLeft ==
    (fn = "match" /\ Len(norm) >= 1) =>
        \A k \in 1..Len(SUFFIXES) : ~EndsWith(norm[1], SUFFIXES[k])

\* C4: with the markers of the cleaned text starting at s1 < ... < sn and
\* ending at e1 < ... < en, the entries handled so far are the first ones of
\* [e1, s2), [e2, s3), ..., [en, len(text)), in that order, and when the
\* parse is over there are exactly n of them
C4_Segmentation ==
    LET M == MarkerStarts(text)
        n == Cardinality(M)
    IN  /\ Len(entries) <= n
        /\ Finished => Len(entries) = n
        /\ \A j \in 1..Len(entries) :
              /\ entries[j].start = MarkerEnd(text, Nth(M, j))
              /\ entries[j].end = IF j < n THEN Nth(M, j + 1) ELSE Len(text)

\* a parse over three entries, the first of them not empty
C4_Witness ==
    /\ pc = "returned"
    /\ Len(entries) = 3
    /\ entries[1].start < entries[1].end
    /\ entries[3].end = Len(text)

\* the markers of M and the entries that hold offset p of the cleaned text
Holders(M, p) ==
    {<<"marker", s>> : s \in {x \in M : x <= p /\ p < MarkerEnd(text, x)}}
        \cup {<<"entry", j>> :
                j \in {k \in 1..Len(entries) :
                          entries[k].start <= p /\ p < entries[k].end}}

\* the entries are in the order of their positions and do not overlap
EntriesOrdered ==
    \A j \in 1..(Len(entries) - 1) :
        /\ entries[j].start < entries[j + 1].start
        /\ entries[j].end <= entries[j + 1].start

\* C5 as stated: when the parse is over, the entries are ordered by position
\* and every offset of the cleaned text, the text before the first marker
\* included, is in exactly one marker or exactly one entry
C5_CoversWholeText ==
    Finished =>
        /\ EntriesOrdered
        /\ \A p \in 0..(Len(text) - 1) :
              Cardinality(Holders(MarkerStarts(text), p)) = 1

\* C5 amended: when the parse is over, the entries are ordered by position,
\* every offset from the start of the first marker on is in exactly one
\* marker or exactly one entry, and the offsets before the first marker (all
\* of them when there is no marker) are in none
C5_CoversFromFirstMarker ==
    LET M == MarkerStarts(text)
    IN  Finished =>
            /\ EntriesOrdered
            /\ \A p \in 0..(Len(text) - 1) :
                  Cardinality(Holders(M, p)) =
                      IF M # {} /\ Least(M) <= p THEN 1 ELSE 0

\* a parse over two entries of a text that starts before its first marker
C5_Witness ==
    /\ pc = "returned"
    /\ Len(entries) >= 2
    /\ Least(MarkerStarts(text)) > 0

\* C6: a document whose cleaned text has no marker returns no company row
\* and no officer row, as a success: run_batch adds nothing to its rows and
\* nothing to its errors
C6_NoMarkers ==
    (pc # "start" /\ MarkerStarts(_clean(doc.raw)) = {}) =>
        /\ result = <<[e_rows |-> <<>>, c_rows |-> <<>>, path |-> doc.parts,
                       ok |-> TRUE]>>
        /\ errors = <<>>
        /\ batch_empresas = <<>>
        /\ batch_cargos = <<>>
        /\ pc = "collected" => doc.parts \in done_set

\* run_batch has collected a document with text and no marker
C6_Witness ==
    /\ pc = "collected"
    /\ text # <<>>
    /\ MarkerStarts(text) = {}
    /\ errors = <<>>

\* C7: every pass of the loop writes one company row, so a parse over n
\* markers returns n company rows, and row j bears the digits of marker j,
\* 4 to 7 of them
C7_OneRowPerEntry ==
    LET M == MarkerStarts(text)
        rows == CompanyRows
    IN  /\ Len(rows) <= Cardinality(M)
        /\ pc = "loop" => Len(rows) = i - 1
        /\ Finished => Len(rows) = Cardinality(M)
        /\ \A j \in 1..Len(rows) :
              /\ rows[j].num_entrada = MarkerDigits(text, Nth(M, j))
              /\ Len(rows[j].num_entrada) \in 4..7
              /\ \A k \in 1..Len(rows[j].num_entrada) :
                    rows[j].num_entrada[k] \in Digit

\* three rows returned, the numbers of the first two of different lengths
C7_Witness ==
    /\ pc = "returned"
    /\ Len(result[1].e_rows) = 3
    /\ Len(result[1].e_rows[1].num_entrada)
          # Len(result[1].e_rows[2].num_entrada)

\* a candidate for the boundary starts at offset a of the block b: behind a
\* period, whitespace, then a capital letter and two small letters or more
IsCandidate(b, a) ==
    /\ b[a] = "."
    /\ LET w == SpanIn(b, a, Space)
       IN  /\ w >= 1
           /\ a + w + 3 <= Len(b)
           /\ b[a + w + 1] \in CapLetter
           /\ b[a + w + 2] \in SmallLetter
           /\ b[a + w + 3] \in SmallLetter

Candidates(b) == {a \in 1..Len(b) : IsCandidate(b, a)}

\* the candidates whose following word is a legal-form token, and the others
Rejected(b) ==
    {a \in Candidates(b) : FirstWord(b, a + SpanIn(b, a, Space)) \in _LEGAL_FORMS}

Accepted(b) == Candidates(b) \ Rejected(b)

\* the offsets of b where a period, whitespace and "Fe de erratas" start
Erratas(b) ==
    {f \in 0..(Len(b) - 1) :
        /\ b[f + 1] = "."
        /\ SpanIn(b, f + 1, Space) >= 1
        /\ StartsAt(b, <<"F","e"," ","d","e"," ","e","r","r","a","t","a","s">>,
                    f + 1 + SpanIn(b, f + 1, Space))}

\* the text b without the periods that end it
WithoutEndPeriods(b) ==
    SubSeq(b, 1, CHOOSE n \in 0..Len(b) :
                    /\ n = 0 \/ b[n] # "."
                    /\ \A k \in (n + 1)..Len(b) : b[k] = ".")

\* the row has none of the optional fields
NoOptionalFields(row) ==
    /\ row.fecha_constitucion = Unset
    /\ row.objeto_social = Unset
    /\ row.domicilio = Unset
    /\ row.capital_euros = Unset
    /\ row.hoja_registral = Unset
    /\ row.tomo = Unset
    /\ row.inscripcion = Unset
    /\ row.fecha_inscripcion = Unset

\* what C8 says of an entry with no boundary, but for the name: the body is
\* empty and the entry has a company row with no act, no optional field and
\* no officer row
EmptyEntry(j) ==
    /\ entries[j].body = <<>>
    /\ empresas_rows[j].actos = <<>>
    /\ NoOptionalFields(empresas_rows[j])
    /\ entries[j].n_cargos = 0

\* C8 as stated: an entry with no accepted candidate and no "Fe de erratas"
\* has its whole flattened text for name, an empty body, and a company row
\* with no act, no optional field and no officer row
C8_WholeEntryIsName ==
    /\ Len(empresas_rows) = Len(entries)
    /\ \A j \in 1..Len(entries) :
          (Accepted(entries[j].block) = {} /\ Erratas(entries[j].block) = {}) =>
              /\ empresas_rows[j].empresa = entries[j].block
              /\ EmptyEntry(j)

\* C8 amended: an entry with no accepted candidate and no "Fe de erratas"
\* has for name its flattened text without the periods that end it, an empty
\* body, and a company row with no act, no optional field and no officer row
C8_EntryWithoutEndPeriodsIsName ==
    /\ Len(empresas_rows) = Len(entries)
    /\ \A j \in 1..Len(entries) :
          (Accepted(entries[j].block) = {} /\ Erratas(entries[j].block) = {}) =>
              /\ empresas_rows[j].empresa = WithoutEndPeriods(entries[j].block)
              /\ EmptyEntry(j)

\* an entry with no boundary whose text ends with a period
C8_Witness ==
    /\ Len(entries) = 1
    /\ entries[1].block # <<>>
    /\ entries[1].block[Len(entries[1].block)] = "."
    /\ Candidates(entries[1].block) # {}
    /\ Accepted(entries[1].block) = {}
    /\ Erratas(entries[1].block) = {}
    /\ empresas_rows[1].empresa # <<>>

\* the boundary of block b: behind the first whitespace of the first accepted
\* candidate, unless "Fe de erratas" is announced before it; then, or with
\* no accepted candidate, behind the period that announces it; with neither,
\* the end of the block
Boundary(b) ==
    IF Accepted(b) # {} /\ (Erratas(b) = {} \/ Least(Accepted(b)) < Least(Erratas(b)))
    THEN Least(Accepted(b)) + 1
    ELSE IF Erratas(b) # {} THEN Least(Erratas(b)) + 1
    ELSE Len(b)

\* C9 as stated: the boundary of an entry is at its first candidate that is
\* not rejected
C9_FirstAccepted ==
    \A j \in 1..Len(entries) :
        Accepted(entries[j].block) # {} =>
            entries[j].body_pos = Least(Accepted(entries[j].block)) + 1

\* C9 amended: the candidates followed by a legal-form token are passed
\* over; the boundary is at the first candidate not rejected, unless a
\* period and "Fe de erratas" come before it (or there is no such
\* candidate), and then the boundary is there.  The name is the text before
\* the boundary, trimmed and without the periods that end it, the body is
\* ". " and the trimmed text from the boundary on, and the body never starts
\* with a legal-form token
C9_Boundary ==
    \A j \in 1..Len(entries) :
        LET b == entries[j].block
            p == Boundary(b)
        IN  /\ entries[j].body_pos = p
            /\ empresas_rows[j].empresa = WithoutEndPeriods(Strip(Slice(b, 0, p)))
            /\ entries[j].body =
                  IF p < Len(b) THEN <<".", " ">> \o Strip(Slice(b, p, Len(b)))
                  ELSE <<>>
            /\ entries[j].body # <<>> =>
                  FirstWord(entries[j].body, 2) \notin _LEGAL_FORMS

\* an entry whose first candidate is rejected and whose boundary is at a
\* later one
C9_Witness ==
    /\ Len(entries) = 1
    /\ Rejected(entries[1].block) # {}
    /\ Accepted(entries[1].block) # {}
    /\ Least(Rejected(entries[1].block)) < Least(Accepted(entries[1].block))
    /\ entries[1].body_pos = Least(Accepted(entries[1].block)) + 1

\* the province of entry j of the text t with markers M: the last line that
\* is a jurisdiction name among the lines from the start of marker j - 1
\* (of t for the first entry) to the start of marker j; with no such line
\* the province of entry j - 1, and for the first entry the one the file
\* name gives.  A line is a name as it stands, or when trimmed.
RECURSIVE ProvinceBy(_, _, _, _, _)
ProvinceBy(t, M, j, byFile, trimmed) ==
    LET from == IF j > 1 THEN Nth(M, j - 1) ELSE 0
        lines == SplitChar(Slice(t, from, Nth(M, j)), "\n")
        line == [k \in 1..Len(lines) |->
                    IF trimmed THEN Strip(lines[k]) ELSE lines[k]]
        named == {k \in 1..Len(lines) : line[k] \in PROVINCIAS}
    IN  IF named # {} THEN line[CHOOSE k \in named : \A h \in named : h <= k]
        ELSE IF j > 1 THEN ProvinceBy(t, M, j - 1, byFile, trimmed)
        ELSE byFile

\* C10 as stated: at every moment, each company row written bears the
\* province of its entry, a line counting when it equals a jurisdiction name
\* exactly
C10_ExactLine ==
    \A j \in 1..Len(empresas_rows) :
        empresas_rows[j].provincia =
            ProvinceBy(text, MarkerStarts(text), j, COD_PROVINCIA(meta.cod_prov),
                       FALSE)

\* C10 amended: at every moment, each company row written bears the province
\* of its entry, a line counting when it equals a jurisdiction name once the
\* whitespace around it is removed; so no later line changes the province of
\* a row already written
C10_TrimmedLine ==
    \A j \in 1..Len(empresas_rows) :
        empresas_rows[j].provincia =
            ProvinceBy(text, MarkerStarts(text), j, COD_PROVINCIA(meta.cod_prov),
                       TRUE)

\* two entries with a sub-header between them: the first is left under the
\* province of the file name, the second is under the sub-header
C10_Witness ==
    /\ pc = "collected"
    /\ Len(empresas_rows) = 2
    /\ empresas_rows[1].provincia = COD_PROVINCIA(meta.cod_prov)
    /\ empresas_rows[2].provincia \in PROVINCIAS
    /\ empresas_rows[2].provincia # empresas_rows[1].provincia

\* the act labels of the actos field of a company row
ActLabels(row) ==
    IF row.actos = <<>> THEN <<>> ELSE SplitChar(row.actos, "|")

\* C11: every act label of the actos field of every company row written is
\* an entry of ACTOS
C11_ActsInVocabulary ==
    \A j \in 1..Len(empresas_rows) :
        \A k \in 1..Len(ActLabels(empresas_rows[j])) :
            \E h \in 1..Len(ACTOS) : ActLabels(empresas_rows[j])[k] = ACTOS[h]

\* C12: the act labels of a company row are the entries of ACTOS that the
\* body holds followed by "." or ":", in the order of ACTOS, each once (so
\* that the first entry of ACTOS, the incorporation, comes first)
C12_ActsAsInBody ==
    \A j \in 1..Len(empresas_rows) :
        ActLabels(empresas_rows[j]) =
            SelectSeq(ACTOS, LAMBDA a :
                \/ Contains(entries[j].body, a \o <<".">>)
                \/ Contains(entries[j].body, a \o <<":">>))

\* The registry block, part by part: a part is a text, or a run of lo to hi
\* characters of a class (hi = -1: no limit)
Text(p) == [lit |-> p]

Chars(cs, lo, hi) == [cs |-> cs, lo |-> lo, hi |-> hi]

\* "T", "L", "F", "S" and their number: \s*X\s*(\d+),
RegNumber(x) ==
    <<Chars(Space, 0, -1), Text(<<x>>), Chars(Space, 0, -1), Chars(Digit, 1, -1),
      Text(<<",">>)>>

RegParts ==
    <<Text(<<"D","a","t","o","s"," ","r","e","g","i","s","t","r","a","l","e","s">>), Chars({".", ":"}, 1, 1)>>
        \o RegNumber("T") \o RegNumber("L") \o RegNumber("F") \o RegNumber("S")
        \o <<Chars(Space, 0, -1), Text(<<"H">>), Chars(Space, 0, -1),
             Chars(AsciiUpper \cup Space, 0, -1), Chars(Digit, 1, -1), Text(<<",">>),
             Chars(Space, 0, -1), Text(<<"I","/","A">>), Chars(Space, 0, -1),
             Chars(Digit, 1, -1), Chars(Space, 0, -1), Text(<<"(">>),
             Chars(Digit, 1, 2), Text(<<".">>), Chars(Digit, 2, 2), Text(<<".">>),
             Chars(Digit, 2, 4), Text(<<")">>)>>

\* where part st ends when it starts at offset p of b; -1 when it is not there
PartEnd(b, p, st) ==
    IF p = -1 THEN -1
    ELSE IF "lit" \in DOMAIN st
    THEN IF StartsAt(b, st.lit, p) THEN p + Len(st.lit) ELSE -1
    ELSE LET n == SpanIn(b, p, st.cs)
             m == IF st.hi >= 0 /\ n > st.hi THEN st.hi ELSE n
         IN  IF m < st.lo THEN -1 ELSE p + m

\* where the parts lo..hi end when they start at offset p of b
RECURSIVE PartsEnd(_, _, _, _, _)
PartsEnd(b, p, parts, lo, hi) ==
    IF p = -1 \/ lo > hi THEN p
    ELSE IF lo = hi THEN PartEnd(b, p, parts[lo])
    ELSE PartsEnd(b, PartsEnd(b, p, parts, lo, (lo + hi) \div 2), parts,
                  (lo + hi) \div 2 + 1, hi)

\* the offsets of b where a well-formed registry block starts
RegBlocks(b) ==
    {p \in 0..Len(b) : PartsEnd(b, p, RegParts, 1, Len(RegParts)) # -1}

\* the text of parts lo..hi of the first registry block of b
RegToken(b, lo, hi) ==
    Slice(b, PartsEnd(b, Least(RegBlocks(b)), RegParts, 1, lo - 1),
             PartsEnd(b, Least(RegBlocks(b)), RegParts, 1, hi))

\* tome, book, folio, section, sheet, sub-entry and date of the first
\* registry block of b
RegTokens(b) ==
    [tome |-> RegToken(b, 6, 6), book |-> RegToken(b, 11, 11),
     folio |-> RegToken(b, 16, 16), section |-> RegToken(b, 21, 21),
     sheet |-> RegToken(b, 26, 27), subentry |-> RegToken(b, 32, 32),
     date |-> RegToken(b, 35, 39)]

RegFields == {"hoja_registral", "tomo", "inscripcion", "fecha_inscripcion"}

\* C13: in every company row written the four registry fields are all set
\* or all unset; they are set when the body holds a well-formed registry
\* block and only then, and an entry whose block is not well-formed still
\* has its row
C13_RegistryAllOrNothing ==
    /\ Len(empresas_rows) = Len(entries)
    /\ \A j \in 1..Len(empresas_rows) :
          /\ \/ \A f \in RegFields : empresas_rows[j][f] = Unset
             \/ \A f \in RegFields : empresas_rows[j][f] # Unset
          /\ RegBlocks(entries[j].body) = {} <=>
                \A f \in RegFields : empresas_rows[j][f] = Unset

\* a row written for a body that names the registry data and lacks a token
C13_Witness ==
    /\ Len(empresas_rows) = 1
    /\ Contains(entries[1].body, <<"D","a","t","o","s"," ","r","e","g","i","s","t","r","a","l","e","s","."," ","T"," ","1",","," ","L"," ",","," ","F"," ","3">>)
    /\ Contains(entries[1].body, <<"(","1",".","0","2",".","2","4",")">>)
    /\ RegBlocks(entries[1].body) = {}
    /\ empresas_rows[1].tomo = Unset

\* C14: a company row whose body holds a well-formed registry block has
\* each of tome, book, folio, section, sheet, sub-entry and date of the
\* block in one of its registry fields
C14_AllRegistryTokens ==
    \A j \in 1..Len(empresas_rows) :
        RegBlocks(entries[j].body) # {} =>
            \A t \in DOMAIN RegTokens(entries[j].body) :
                \E f \in RegFields :
                    empresas_rows[j][f] = Set(RegTokens(entries[j].body)[t])

\* The capital block, part by part: the label, "." or ":", whitespace, a run
\* of digits, periods and commas, whitespace, "Euros"
CapParts ==
    <<Text(<<"C","a","p","i","t","a","l">>), Chars({".", ":"}, 1, 1), Chars(Space, 0, -1),
      Chars(Digit \cup {".", ","}, 1, -1), Chars(Space, 0, -1), Text(<<"E","u","r","o","s">>)>>

CapBlocks(b) ==
    {p \in 0..Len(b) : PartsEnd(b, p, CapParts, 1, Len(CapParts)) # -1}

\* the run of digits, periods and commas of the first capital block of b
CapRun(b) ==
    Slice(b, PartsEnd(b, Least(CapBlocks(b)), CapParts, 1, 3),
             PartsEnd(b, Least(CapBlocks(b)), CapParts, 1, 4))

\* the run read as a number: the periods deleted, the comma for the decimal
\* separator; with digits d and n digits behind the comma the number is
\* ToInt(d) / 10^n.  No number with two commas or more, or without a digit.
Commas(run) == {k \in 1..Len(run) : run[k] = ","}

IsNumber(run) ==
    /\ Cardinality(Commas(run)) <= 1
    /\ \E k \in 1..Len(run) : run[k] \in Digit

Decimals(run) ==
    Cardinality({k \in 1..Len(run) :
                    run[k] \in Digit /\ \E c \in Commas(run) : c < k})

DigitsOf(run) == SelectSeq(run, LAMBDA c : c \in Digit)

\* C15: a company row has capital_euros set exactly when its body holds a
\* capital block whose run reads as a number, and then capital_euros is that
\* number ("3.012,50" gives 301250 / 10^2); a row is written for every
\* entry, also when the run is no number
C15_Capital ==
    /\ Len(empresas_rows) = Len(entries)
    /\ \A j \in 1..Len(empresas_rows) :
          LET b == entries[j].body
              c == empresas_rows[j].capital_euros
          IN  IF CapBlocks(b) # {} /\ IsNumber(CapRun(b))
              THEN /\ c # Unset
                   /\ c[1].m * Pow10(Decimals(CapRun(b)))
                         = ToInt(DigitsOf(CapRun(b))) * Pow10(c[1].s)
              ELSE c = Unset

\* a row with the capital 3012.5 read from "3.012,50"
C15_Witness ==
    /\ Len(empresas_rows) = 1
    /\ Contains(entries[1].body, <<"C","a","p","i","t","a","l",":"," ","3",".","0","1","2",",","5","0"," ","E","u","r","o","s",".">>)
    /\ empresas_rows[1].capital_euros = Set([m |-> 30125, s |-> 1])

\* a row written without capital for a capital block whose run is no number
C15_WitnessNoNumber ==
    /\ Len(empresas_rows) = 1
    /\ CapBlocks(entries[1].body) # {}
    /\ ~IsNumber(CapRun(entries[1].body))
    /\ empresas_rows[1].capital_euros = Unset

\* the keys of SECTION_MAP that begin the label, followed by a period
PrefixesOf(label) ==
    {h \in 1..Len(SECTION_KEYS) : StartsWith(label, SECTION_KEYS[h] \o <<".">>)}

\* the occurrences <<offset, key>> of the keys of SECTION_MAP in the body
\* at offsets below start
SectionsBefore(body, start) ==
    {<<o, h>> : o \in 0..(start - 1), h \in 1..Len(SECTION_KEYS)} \cap
    {x \in (0..Len(body)) \X (1..Len(SECTION_KEYS)) :
        StartsAt(body, SECTION_KEYS[x[2]], x[1])}

ActionTypes == {"nombramiento", "cese", "revocacion", "reeleccion", "cancelacion"}

\* what C16 says of a row r of the match m of the body
ResolvedAs(r, m, body) ==
    LET pre == PrefixesOf(m.raw_cargo)
        occ == SectionsBefore(body, m.start)
        last == CHOOSE x \in occ : \A y \in occ : y[1] <= x[1]
    IN  /\ r.tipo_acto \in ActionTypes
        /\ IF pre # {}
           THEN \E h \in pre :
                   /\ r.tipo_acto = SECTION_MAP(SECTION_KEYS[h])
                   /\ r.cargo = Strip(LStripSet(
                         Strip(Slice(m.raw_cargo, Len(SECTION_KEYS[h]),
                                     Len(m.raw_cargo))), {".", " "}))
           ELSE /\ r.cargo = m.raw_cargo
                /\ r.tipo_acto = IF occ = {} THEN "nombramiento"
                                 ELSE SECTION_MAP(SECTION_KEYS[last[2]])

\* C16: every officer row has one of the five action types; when the label
\* of its match begins with a section prefix and a period, the role is the
\* label without the prefix and the type is that section's; otherwise the
\* role is the label and the type is that of the section keyword with the
\* greatest offset below the start of the match, "nombramiento" when there
\* is none
C16_ActionType ==
    \A j \in 1..Len(entries) :
        \A k \in 1..Len(entries[j].matches) :
            \A n \in 1..Len(entries[j].matches[k].rows) :
                ResolvedAs(entries[j].matches[k].rows[n], entries[j].matches[k],
                           entries[j].body)

\* a label without prefix behind two section headings: the later one counts
C16_Witness ==
    /\ Len(entries) = 1
    /\ Contains(entries[1].body, <<"N","o","m","b","r","a","m","i","e","n","t","o","s","."," ","C","e","s","e","s","/","D","i","m","i","s","i","o","n","e","s","."," ","A","d","m">>)
    /\ Len(entries[1].matches) = 1
    /\ PrefixesOf(entries[1].matches[1].raw_cargo) = {}
    /\ Len(entries[1].matches[1].rows) = 2
    /\ entries[1].matches[1].rows[1].tipo_acto = "cese"

\* a label with a prefix behind another section heading: the prefix counts
C16_WitnessPrefix ==
    /\ Len(entries) = 1
    /\ Contains(entries[1].body, <<"C","e","s","e","s","/","D","i","m","i","s","i","o","n","e","s","."," ","N","o","m","b","r","a","m","i","e","n","t","o","s","."," ","A","d","m">>)
    /\ Len(entries[1].matches) = 1
    /\ PrefixesOf(entries[1].matches[1].raw_cargo) = {1}
    /\ Len(entries[1].matches[1].rows) = 2
    /\ entries[1].matches[1].rows[1].tipo_acto = "nombramiento"
    /\ entries[1].matches[1].rows[1].cargo = <<"A","d","m","."," ","U","n","i","c","o">>

\* what the label begins with, whatever the case of its letters
BeginsAnyCase(label, p) == StartsWith(Upper(label), p)

\* the article and classification-code labels: ART, ARTICULO or ARTS before
\* a blank, a digit, a period or a comma; CNAE before a blank; ACTIVIDAD
ArticleLike(label) ==
    \/ \E p \in {<<"A","R","T">>, <<"A","R","T","I","C","U","L","O">>, <<"A","R","T","S">>} :
          /\ BeginsAnyCase(label, p)
          /\ Len(label) > Len(p)
          /\ label[Len(p) + 1] \in Space \cup Digit \cup {".", ","}
    \/ /\ BeginsAnyCase(label, <<"C","N","A","E">>)
       /\ Len(label) > 4
       /\ label[5] \in Space
    \/ BeginsAnyCase(label, <<"A","C","T","I","V","I","D","A","D">>)

\* the tokens of a name run, as <<first, last>>: the longest stretches free
\* of blanks, semicolons and periods
NameTokens(run) ==
    LET sep(k) == run[k] \in Space \cup {";", "."}
    IN  {x \in (1..Len(run)) \X (1..Len(run)) :
            /\ x[1] <= x[2]
            /\ \A k \in x[1]..x[2] : ~sep(k)
            /\ x[1] = 1 \/ sep(x[1] - 1)
            /\ x[2] = Len(run) \/ sep(x[2] + 1)}

LongTokens(run) == {x \in NameTokens(run) : x[2] > x[1]}

\* the role of a label: the label without its section prefix
RoleOf(label) ==
    IF PrefixesOf(label) = {} THEN label
    ELSE LET h == CHOOSE h \in PrefixesOf(label) : TRUE
         IN  Strip(LStripSet(Strip(Slice(label, Len(SECTION_KEYS[h]), Len(label))),
                             {".", " "}))

BadLabel(label) == label = <<>> \/ label \in CARGO_EXCLUDE \/ ArticleLike(label)

\* the candidates C17 rejects
RejectedMatch(m) ==
    \/ BadLabel(m.raw_cargo)
    \/ BadLabel(RoleOf(m.raw_cargo))
    \/ Cardinality(LongTokens(m.personas_raw)) < 2

\* the rows of the matches of the entries, in order
RECURSIVE RowsOfMatches(_)
RowsOfMatches(ms) ==
    IF ms = <<>> THEN <<>> ELSE ms[1].rows \o RowsOfMatches(Tail(ms))

RECURSIVE RowsOfEntries(_)
RowsOfEntries(es) ==
    IF es = <<>> THEN <<>>
    ELSE RowsOfMatches(es[1].matches) \o RowsOfEntries(Tail(es))

\* C17: an officer row is written for a candidate exactly when its label,
\* before and after the section prefix is taken off, is not empty, not in
\* the stoplist and not an article or classification-code label, and its
\* name run has two tokens longer than one character; no written row has
\* such a role; the rows written are those of the candidates that pass, in
\* order, and no document fails
C17_Rejection ==
    /\ \A j \in 1..Len(entries) :
          \A k \in 1..Len(entries[j].matches) :
              /\ entries[j].matches[k].rows = <<>>
                    <=> RejectedMatch(entries[j].matches[k])
              /\ \A n \in 1..Len(entries[j].matches[k].rows) :
                    ~BadLabel(entries[j].matches[k].rows[n].cargo)
    /\ cargos_rows = RowsOfEntries(entries)
    /\ errors = <<>>
    /\ Finished => result[1].ok

\* a rejected candidate before one that is written
C17_Witness ==
    /\ pc = "collected"
    /\ Len(entries) = 1
    /\ Len(entries[1].matches) = 2
    /\ RejectedMatch(entries[1].matches[1])
    /\ entries[1].matches[1].rows = <<>>
    /\ Len(entries[1].matches[2].rows) = 2
    /\ batch_cargos = entries[1].matches[2].rows
    /\ errors = <<>>

\* the person names of a name run, as <<first, last>>: the longest
\* stretches free of semicolons that hold more than blanks
PersonSpans(run) ==
    {x \in (1..Len(run)) \X (1..Len(run)) :
        /\ x[1] <= x[2]
        /\ \A k \in x[1]..x[2] : run[k] # ";"
        /\ x[1] = 1 \/ run[x[1] - 1] = ";"
        /\ x[2] = Len(run) \/ run[x[2] + 1] = ";"
        /\ \E k \in x[1]..x[2] : run[k] \notin Space}

\* the n-th person name of a name run
PersonName(run, n) ==
    LET S == PersonSpans(run)
        x == CHOOSE x \in S : Cardinality({y \in S : y[1] < x[1]}) = n - 1
    IN  Strip(SubSeq(run, x[1], x[2]))

\* what C18 says of the rows of the match m of the entry whose company row
\* is e
OnePerPerson(m, e) ==
    /\ Len(m.rows) = Cardinality(PersonSpans(m.personas_raw))
    /\ \A n \in 1..Len(m.rows) :
          /\ m.rows[n].persona = PersonName(m.personas_raw, n)
          /\ m.rows[n].cargo = RoleOf(m.raw_cargo)
          /\ m.rows[n].tipo_acto = m.rows[1].tipo_acto
          /\ m.rows[n].num_entrada = e.num_entrada
          /\ m.rows[n].empresa = e.empresa
          /\ m.rows[n].empresa_norm = e.empresa_norm
          /\ m.rows[n].provincia = e.provincia
          /\ m.rows[n].hoja_registral =
                IF e.hoja_registral = Unset THEN <<>> ELSE e.hoja_registral[1]

\* C18: a match that is accepted gives one officer row for each person name
\* of its name run that is not empty, in order; the rows have the role and
\* one action type, and the entry number, the company name, the normalized
\* name, the province and the registry sheet of the company row of the entry
C18_OneRowPerPerson ==
    /\ Len(empresas_rows) = Len(entries)
    /\ \A j \in 1..Len(entries) :
          \A k \in 1..Len(entries[j].matches) :
              entries[j].matches[k].rows # <<>>
                 => OnePerPerson(entries[j].matches[k], empresas_rows[j])

\* a name run of two names around an empty one, in an entry with a registry
\* sheet
C18_Witness ==
    /\ pc = "collected"
    /\ Len(entries) = 1
    /\ Len(entries[1].matches) = 1
    /\ Contains(entries[1].matches[1].personas_raw, <<";", ";">>)
    /\ Len(entries[1].matches[1].rows) = 2
    /\ entries[1].matches[1].rows[1].persona = <<"P","E","R","E","Z"," ","J","U","A","N">>
    /\ entries[1].matches[1].rows[2].persona = <<"L","O","P","E","Z"," ","A","N","A">>
    /\ empresas_rows[1].hoja_registral = Set(<<"M"," ","4">>)
    /\ entries[1].matches[1].rows[2].hoja_registral = <<"M"," ","4">>
    /\ batch_cargos = entries[1].matches[1].rows

\* the keys among keys
KeysOf(keys) == {keys[k] : k \in 1..Len(keys)}

\* the place of the first of the keys equal to K
FirstWith(keys, K) ==
    CHOOSE k \in 1..Len(keys) :
        /\ keys[k] = K
        /\ \A j \in 1..(k - 1) : keys[j] # K

\* output holds one record for each key of the rows run_batch gathered,
\* keys[k] being the key of row k: the first row with the key, as the data
\* frame has it
OnePerKey(output, rows, keys) ==
    /\ Len(output) = Cardinality(KeysOf(keys))
    /\ \A K \in KeysOf(keys) :
          \E n \in 1..Len(output) :
              output[n] = WithDatetime(rows)[FirstWith(keys, K)]

\* C19: when run_batch has written its output, the companies hold one
\* record for each (bulletin date, entry number, normalized name) of the
\* rows gathered, the first of them in the order of aggregation, and the
\* officers one for each (bulletin date, entry number, role, person,
\* action type)
C19_OnePerKey ==
    pc = "done" =>
        /\ OnePerKey(out[1].empresas, batch_empresas,
                     EmpresaKeys(batch_empresas))
        /\ OnePerKey(out[1].cargos, batch_cargos, CargoKeys(batch_cargos))

\* the same with the bulletin dates as pd.to_datetime gives them, every
\* text that is no date being one date
C19_OnePerConvertedKey ==
    pc = "done" =>
        /\ OnePerKey(out[1].empresas, batch_empresas,
                     EmpresaKeys(WithDatetime(batch_empresas)))
        /\ OnePerKey(out[1].cargos, batch_cargos,
                     CargoKeys(WithDatetime(batch_cargos)))

\* a document that holds its entry twice gives the records of one entry
C19_TwiceAsOnce ==
    /\ pc = "done"
    /\ Len(arrived) = 1
    /\ Len(batch_empresas) = 2
    /\ batch_empresas[1] = batch_empresas[2]
    /\ Len(out[1].empresas) = 1
    /\ Len(batch_cargos) = 2
    /\ Len(out[1].cargos) = 1

\* the orders in which n results can arrive
Orders(n) == {p \in [1..n -> 1..n] : \A a, b \in 1..n : p[a] = p[b] => a = b}

RECURSIVE Gathered(_, _, _)
Gathered(rs, p, k) ==
    IF k > Len(p) THEN [e |-> <<>>, c |-> <<>>]
    ELSE LET g == Gathered(rs, p, k + 1)
         IN  [e |-> rs[p[k]].e_rows \o g.e, c |-> rs[p[k]].c_rows \o g.c]

Records(rows) == {rows[k] : k \in 1..Len(rows)}

\* C20: when run_batch has written its output, the company records and the
\* officer records are those any other order of arrival of the same results
\* gives
C20_AnyOrder ==
    pc = "done" =>
        \A p \in Orders(Len(arrived)) :
            LET g == Gathered(arrived, p, 1)
                e == WithDatetime(g.e)
                c == WithDatetime(g.c)
            IN  /\ Records(DropDuplicates(e, EmpresaKeys(e)))
                      = Records(out[1].empresas)
                /\ Records(DropDuplicates(c, CargoKeys(c)))
                      = Records(out[1].cargos)

\* the paths of a list of paths
Listed(paths) == {paths[k] : k \in 1..Len(paths)}

\* the rows of the results that arrived, those of the failed results left
\* out
RECURSIVE KeptRows(_)
KeptRows(rs) ==
    IF rs = <<>> THEN [e |-> <<>>, c |-> <<>>]
    ELSE LET g == KeptRows(Tail(rs))
         IN  IF rs[1].ok
             THEN [e |-> rs[1].e_rows \o g.e, c |-> rs[1].c_rows \o g.c]
             ELSE g

\* C21: a document whose parse raised gives no rows, and its path is in the
\* error list and not in the done set; the rows of the other documents are
\* all kept, their paths are in the done set, and after any result the batch
\* goes on to the next future or to its output
C21_FailureIsolation ==
    /\ \A k \in 1..Len(arrived) :
          IF arrived[k].ok
          THEN /\ arrived[k].path \in done_set
               /\ arrived[k].path \notin Listed(errors)
          ELSE /\ arrived[k].e_rows = <<>>
               /\ arrived[k].c_rows = <<>>
               /\ arrived[k].path \in Listed(errors)
               /\ arrived[k].path \notin done_set
    /\ Len(errors) = Cardinality({k \in 1..Len(arrived) : ~arrived[k].ok})
    /\ batch_empresas = KeptRows(arrived).e
    /\ batch_cargos = KeptRows(arrived).c
    /\ pc = "collected" => ENABLED (NextFuture \/ BuildFrames)

\* a document whose parse raised, and after it a document whose
\* records are written
C21_Witness ==
    /\ pc = "done"
    /\ Len(arrived) = 2
    /\ ~arrived[1].ok
    /\ errors = <<arrived[1].path>>
    /\ arrived[1].path = MainPath
    /\ arrived[2].ok
    /\ Len(arrived[2].e_rows) = 1
    /\ out[1].empresas = WithDatetime(arrived[2].e_rows)
    /\ Len(out[1].cargos) = 1

\* the results of the documents whose text cannot be obtained
UnreadableResults ==
    {k \in 1..Len(arrived) :
        \E d \in FailDocs : d.parts = arrived[k].path /\ ~d.readable}

\* C22: a document whose text cannot be obtained gives no rows and its path
\* is in the error list of the batch, and the batch goes on
C22_UnreadableIsError ==
    /\ \A k \in UnreadableResults :
          /\ arrived[k].e_rows = <<>>
          /\ arrived[k].c_rows = <<>>
          /\ arrived[k].path \in Listed(errors)
    /\ pc = "collected" => ENABLED (NextFuture \/ BuildFrames)

\* what holds of such a document: no rows, and its path in the done set
\* unless its parse raised
C22_UnreadableIsDone ==
    /\ \A k \in UnreadableResults :
          /\ arrived[k].e_rows = <<>>
          /\ arrived[k].c_rows = <<>>
          /\ arrived[k].ok => arrived[k].path \in done_set
          /\ arrived[k].ok => arrived[k].path \notin Listed(errors)
    /\ pc = "collected" => ENABLED (NextFuture \/ BuildFrames)

\* an unreadable document taken as done, with no error
C22_DoneWitness ==
    /\ pc = "done"
    /\ UnreadableResults = {1}
    /\ Len(arrived) = 2
    /\ arrived[1].ok
    /\ arrived[1].path \in done_set
    /\ errors = <<>>

\* the lines of a text; an empty text has none
LinesOf(t) == IF t = <<>> THEN <<>> ELSE SplitChar(t, "\n")

\* a is b with some of its members taken out: a[1] is matched with its
\* first occurrence in b, and the rest of a with what follows it
RECURSIVE IsSubsequence(_, _)
IsSubsequence(a, b) ==
    IF a = <<>> THEN TRUE
    ELSE IF b = <<>> THEN FALSE
    ELSE IF a[1] = b[1] THEN IsSubsequence(Tail(a), Tail(b))
    ELSE IsSubsequence(a, Tail(b))

\* digits and dashes, a capital letter, -EMROB
IsFooterCode(l) ==
    /\ Len(l) >= 8
    /\ SubSeq(l, Len(l) - 5, Len(l)) = <<"-","E","M","R","O","B">>
    /\ l[Len(l) - 6] \in AsciiUpper
    /\ \A k \in 1..(Len(l) - 7) : l[k] \in Digit \cup {"-"}

\* the lines C23 wants out of the cleaned text
IsNoise(l) ==
    \/ l \in _SKIP_LINES
    \/ StartsWith(l, <<"B","O","L","E","T","I'","N"," ","O","F","I","C","I","A","L"," ","D","E","L"," ","R","E","G","I","S","T","R","O">>)
    \/ StartsWith(l, <<"N","u'","m",".">>) /\ Contains(l, <<"P","a'","g",".">>)
    \/ IsFooterCode(l)
    \/ Contains(l, <<"D",".","L",".",":"," ","M","-","5","1","8","8">>)

\* C23: the lines of the cleaned text are lines of the raw text, in their
\* order, and none of them is a section header, a banner, a page counter, a
\* footer code or a legal deposit
C23_Cleaner ==
    pc # "start" =>
        /\ IsSubsequence(LinesOf(text), LinesOf(doc.raw))
        /\ \A k \in 1..Len(LinesOf(text)) : ~IsNoise(LinesOf(text)[k])

\* a text of three lines of which the first and the last are taken out
C23_Witness ==
    /\ pc = "collected"
    /\ Len(LinesOf(doc.raw)) = 3
    /\ IsNoise(LinesOf(doc.raw)[1])
    /\ ~IsNoise(LinesOf(doc.raw)[2])
    /\ LinesOf(doc.raw)[3] = <<" ","E","m","p","r","e","s","a","r","i","o","s"," ">>
    /\ text = <<"1","2","3","4"," ","-"," ","A","C","M","E",".">>
    /\ Len(empresas_rows) = 1

\* the offsets behind the labels "Objeto social." and "Objeto social:" of
\* the body
ObjectLabelEnds(body) ==
    {o + 14 : o \in {o \in 0..(Len(body) - 14) :
        /\ StartsAt(body, <<"O","b","j","e","t","o"," ","s","o","c","i","a","l">>, o)
        /\ body[o + 14] \in {".", ":"}}}

\* a period, blanks if any, and "Domicilio." or "Domicilio:" start at
\* offset a of the body
IsDomicileAnchor(body, a) ==
    /\ a < Len(body)
    /\ body[a + 1] = "."
    /\ \E b \in (a + 1)..Len(body) :
          /\ \A k \in (a + 2)..b : body[k] \in Space
          /\ StartsAt(body, <<"D","o","m","i","c","i","l","i","o">>, b)
          /\ b + 10 <= Len(body)
          /\ body[b + 10] \in {".", ":"}

\* the anchors that follow the offset e with text between
AnchorsAfter(body, e) ==
    {a \in (e + 1)..Len(body) :
        /\ IsDomicileAnchor(body, a)
        /\ Strip(Slice(body, e, a)) # <<>>}

\* the text between the first label that an anchor follows and the first
\* anchor after it, without the blanks around it, cut at 500 characters
BoundedObject(body) ==
    LET E == {e \in ObjectLabelEnds(body) : AnchorsAfter(body, e) # {}}
        e == CHOOSE e \in E : \A f \in E : e <= f
        a == CHOOSE a \in AnchorsAfter(body, e) :
                \A c \in AnchorsAfter(body, e) : a <= c
    IN  IF E = {} THEN Unset
        ELSE Set(Slice(Strip(Slice(body, e, a)), 0, 500))

\* the same, the end of the body standing for the anchor when none follows
ObjectToAnchorOrEnd(body) ==
    LET E == {e \in ObjectLabelEnds(body) : e < Len(body)}
        e == CHOOSE e \in E : \A f \in E : e <= f
        A == AnchorsAfter(body, e)
        a == IF A = {} THEN Len(body) ELSE CHOOSE a \in A : \A c \in A : a <= c
    IN  IF E = {} THEN Unset
        ELSE Set(Slice(Strip(Slice(body, e, a)), 0, 500))

Incorporations ==
    {j \in 1..Len(entries) : HasActo(entries[j].body, CONSTITUCION)}

\* C24: the object of business of an incorporation is the text between the
\* label "Objeto social" and the "Domicilio" label that follows it, cut at
\* 500 characters, and is unset when no "Domicilio" label follows; the row
\* is written in both cases
C24_ObjectOfBusiness ==
    /\ Len(empresas_rows) = Len(entries)
    /\ \A j \in Incorporations :
          empresas_rows[j].objeto_social = BoundedObject(entries[j].body)

\* what holds: when no "Domicilio" label follows, the object of business is
\* the text up to the end of the body
C24_ObjectToAnchorOrEnd ==
    /\ Len(empresas_rows) = Len(entries)
    /\ \A j \in Incorporations :
          empresas_rows[j].objeto_social = ObjectToAnchorOrEnd(entries[j].body)

\* the object of business between its label and the anchor
C24_BoundedWitness ==
    /\ pc = "collected"
    /\ Len(entries) = 1
    /\ Incorporations = {1}
    /\ BoundedObject(entries[1].body) = Set(<<"C","O","M","E","R","C","I","O">>)
    /\ empresas_rows[1].objeto_social = Set(<<"C","O","M","E","R","C","I","O">>)
    /\ empresas_rows[1].domicilio = Set(<<"C","A","L","L","E"," ","M","A","Y","O","R">>)

\* C26: a company row has a start of operations or an object of business
\* only when "Constitucion" is among its acts, and has neither when its body
\* holds neither "Constitucion." nor "Constitucion:"
C26_OnlyWithIncorporation ==
    /\ Len(empresas_rows) = Len(entries)
    /\ \A j \in 1..Len(entries) :
          /\ (\/ empresas_rows[j].fecha_constitucion # Unset
              \/ empresas_rows[j].objeto_social # Unset)
                => \E k \in 1..Len(ActLabels(empresas_rows[j])) :
                      ActLabels(empresas_rows[j])[k] = CONSTITUCION
          /\ (/\ ~Contains(entries[j].body, CONSTITUCION \o <<".">>)
              /\ ~Contains(entries[j].body, CONSTITUCION \o <<":">>))
                => /\ empresas_rows[j].fecha_constitucion = Unset
                   /\ empresas_rows[j].objeto_social = Unset

\* a body with the two labels and no incorporation
C26_Witness ==
    /\ pc = "collected"
    /\ Len(entries) = 1
    /\ Contains(entries[1].body, <<"C","o","m","i","e","n","z","o"," ","d","e"," ","o","p","e","r","a","c","i","o","n","e","s",":"," ","1",".","0","1",".","2","4">>)
    /\ Contains(entries[1].body, <<"O","b","j","e","t","o"," ","s","o","c","i","a","l",":"," ","C","O","M","E","R","C","I","O">>)
    /\ ~Contains(entries[1].body, CONSTITUCION)
    /\ empresas_rows[1].fecha_constitucion = Unset
    /\ empresas_rows[1].objeto_social = Unset

\* the same labels behind an incorporation
C26_WitnessSet ==
    /\ pc = "collected"
    /\ Len(entries) = 1
    /\ empresas_rows[1].actos = CONSTITUCION
    /\ empresas_rows[1].fecha_constitucion = Set(<<"1",".","0","1",".","2","4",".">>)
    /\ empresas_rows[1].objeto_social # Unset

\* C25: when a run of run_batch is over, the company records and the
\* officer records on disk are those of all the documents of the done set,
\* one for each key, as one run over these documents writes them
C25_ResumedAsOneRun ==
    pc = "done" =>
        LET e == WithDatetime(KeptRows(arrived).e)
            c == WithDatetime(KeptRows(arrived).c)
        IN  /\ done_set = {arrived[k].path : k \in 1..Len(arrived)}
            /\ Records(Persisted.empresas) = Records(DropDuplicates(e, EmpresaKeys(e)))
            /\ Records(Persisted.cargos) = Records(DropDuplicates(c, CargoKeys(c)))

\* what holds: the records on disk are those of the documents of the last
\* run that had some, when a run has written any
C25_LastRunOnly ==
    pc = "done" =>
        /\ done_set = {arrived[k].path : k \in 1..Len(arrived)}
        /\ out # <<>> =>
              /\ Records(Persisted.empresas) \subseteq Records(WithDatetime(KeptRows(arrived).e))
              /\ Cardinality(Records(Persisted.empresas)) <= MaxDocs

\* a resumed run over one new document, after a run over two: the records
\* of the first two are gone
C25_LostWitness ==
    /\ pc = "done"
    /\ Cardinality(done_set) = 3
    /\ Len(arrived) = 3
    /\ Len(Persisted.empresas) = 1
    /\ Persisted.empresas = WithDatetime(arrived[3].e_rows)

\* C27: a period, whitespace and "Fe de erratas" are a boundary, though they
\* are no candidate of the regular pattern.  In an entry that has them the
\* boundary is at the first of them or at the first accepted candidate,
\* whichever comes first, so never at a candidate behind them; and when it
\* is at them the body starts with ". Fe de erratas"
C27_Erratum ==
    \A j \in 1..Len(entries) :
        LET b == entries[j].block
            f == Least(Erratas(b))
            before == {a \in Accepted(b) : a < f + 1}
        IN  Erratas(b) # {} =>
              /\ \A e \in Erratas(b) : e + 1 \notin Candidates(b)
              /\ entries[j].body_pos =
                    IF before # {} THEN Least(before) + 1 ELSE f + 1
              /\ entries[j].body_pos <= f + 1
              /\ before = {} =>
                    StartsAt(entries[j].body, <<"."," ","F","e"," ","d","e"," ","e","r","r","a","t","a","s">>, 0)

\* an entry with an accepted candidate behind "Fe de erratas" and none
\* before it: the boundary is at "Fe de erratas"
C27_Witness ==
    /\ Len(entries) = 1
    /\ Erratas(entries[1].block) # {}
    /\ \E a \in Accepted(entries[1].block) :
          a > Least(Erratas(entries[1].block)) + 1
    /\ entries[1].body_pos = Least(Erratas(entries[1].block)) + 1
    /\ StartsAt(entries[1].body, <<"."," ","F","e"," ","d","e"," ","e","r","r","a","t","a","s">>, 0)

\* an entry with an accepted candidate before "Fe de erratas": the boundary
\* is at the candidate
C27_WitnessCandidateFirst ==
    /\ Len(entries) = 1
    /\ Erratas(entries[1].block) # {}
    /\ \E a \in Accepted(entries[1].block) :
          /\ a < Least(Erratas(entries[1].block)) + 1
          /\ entries[1].body_pos = a + 1

\* the region code of a file name BORME-<letter>-<year>-<issue>-<region>:
\* the digits behind its fourth hyphen
RegionCodeOf(fname) ==
    LET H == {k \in 1..Len(fname) : fname[k] = "-"}
        h == CHOOSE k \in H : Cardinality({x \in H : x < k}) = 3
    IN  SubSeq(fname, h + 1, h + SpanIn(fname, h, Digit))

\* C29: the cod_provincia of every company row, built or returned, is the
\* region code of the file name of its document, whatever its provincia
C29_CodeOfFileName ==
    LET code == RegionCodeOf(doc.parts[Len(doc.parts)])
    IN  /\ \A j \in 1..Len(empresas_rows) :
              empresas_rows[j].cod_provincia = code
        /\ pc \in {"returned", "collected"} =>
              \A j \in 1..Len(result[1].e_rows) :
                  result[1].e_rows[j].cod_provincia = code

\* a document of region 08 returned with two rows, the second under a
\* sub-header of another region: its provincia is that region, its
\* cod_provincia is 08
C29_Witness ==
    /\ pc = "returned"
    /\ Len(result[1].e_rows) = 2
    /\ result[1].e_rows[1].provincia = COD_PROVINCIA(<<"0","8">>)
    /\ result[1].e_rows[2].provincia \in PROVINCIAS
    /\ result[1].e_rows[2].provincia # COD_PROVINCIA(<<"0","8">>)
    /\ result[1].e_rows[2].cod_provincia = <<"0","8">>

\* the publishing days of the range of the runs
PublishingDays == {d \in args.start..args.end : d % 7 \notin {5, 6}}

\* C28: when a run started with --resume has come to its end, whatever
\* stopped the runs before it, every publishing day of the range has been
\* processed; and last_completed_date, in memory and in the file, is never
\* behind a publishing day of the range that has not been processed
C28_ResumeCoversRange ==
    /\ (args.resume /\ s_pc = "complete") => PublishingDays \subseteq processed
    /\ \A d \in PublishingDays \ processed :
          /\ state.last_completed_date < d
          /\ state_file # <<>> => state_file[1].last_completed_date < d

\* what holds: the same when every run is sequential
C28_SequentialCoversRange ==
    args.workers <= 1 =>
        /\ (args.resume /\ s_pc = "complete") => PublishingDays \subseteq processed
        /\ \A d \in PublishingDays \ processed :
              /\ state.last_completed_date < d
              /\ state_file # <<>> => state_file[1].last_completed_date < d

\* a resumed run of several workers at its end, with a publishing day of
\* the range before last_completed_date that no run has processed
C28_SkippedWitness ==
    /\ args.resume
    /\ args.workers > 1
    /\ s_pc = "complete"
    /\ \E d \in PublishingDays \ processed : d < state.last_completed_date

\* a resumed sequential run at its end: every publishing day processed,
\* and marked once in the state saved
C28_SequentialWitness ==
    /\ args.resume
    /\ args.workers <= 1
    /\ s_pc = "complete"
    /\ state.total_days_processed = Cardinality(PublishingDays)
    /\ state_file = <<state>>
    /\ PublishingDays \subseteq processed

\* an attempt succeeds: a response with no error status and a JSON body
Succeeds(o) == ~o.exc /\ o.code \in 200..399 /\ o.body \in {"[1]", "null"}

\* an attempt may be tried again: status 429, status 5xx, or an exception
\* that is no HTTP error, from the request or from reading the body
MayRetry(o) ==
    \/ o.exc
    \/ o.code = 429
    \/ o.code \in 500..599
    \/ o.code \in 200..399 /\ o.body \notin {"[1]", "null"}

\* the value of a JSON body
ValueOf(body) == IF body = "null" THEN "None" ELSE body

\* the attempts of a call: four at most, each counted in n_requests, and
\* each but the last one that may be tried again
AttemptsOfCall ==
    /\ Len(responses) <= 4
    /\ n_requests = calls.n_requests + Len(responses)
    /\ g_pc = "call" =>
          /\ Len(responses) = retry
          /\ retry <= 3
          /\ n_errors = calls.n_errors
    /\ \A k \in 1..Len(responses) :
          (k < Len(responses) \/ g_pc = "call") => MayRetry(responses[k])

\* the call has returned after a failure: its last attempt did not succeed,
\* and either may not be tried again or is the fourth
EndedInFailure ==
    LET last == responses[Len(responses)]
    IN  /\ ~Succeeds(last)
        /\ ~MayRetry(last) \/ Len(responses) = 4

\* C30 as stated: a call makes four attempts at most, tries again only
\* after 429, 5xx or an exception that is no HTTP error, returns the JSON
\* of the first attempt that succeeds and None otherwise; n_requests grows
\* by one with each attempt and n_errors by one with each call that returns
\* None
C30_GetJson ==
    /\ AttemptsOfCall
    /\ g_pc = "returned" =>
          LET last == responses[Len(responses)]
          IN  /\ Succeeds(last) \/ EndedInFailure
              /\ Succeeds(last) => returned = <<ValueOf(last.body)>>
              /\ ~Succeeds(last) => returned = <<"None">>
              /\ n_errors = calls.n_errors
                               + (IF returned = <<"None">> THEN 1 ELSE 0)

\* C30 amended: n_errors grows by one with each call that ends in a
\* failure, and not with a call that returns the JSON of an attempt that
\* succeeds, be it null
C30_GetJsonCountsFailures ==
    /\ AttemptsOfCall
    /\ g_pc = "returned" =>
          LET last == responses[Len(responses)]
          IN  /\ Succeeds(last) \/ EndedInFailure
              /\ Succeeds(last) => returned = <<ValueOf(last.body)>>
              /\ ~Succeeds(last) => returned = <<"None">>
              /\ n_errors = calls.n_errors
                               + (IF Succeeds(last) THEN 0 ELSE 1)

\* the second call of a session returns None after four attempts, of the
\* three kinds that are tried again, and the first call had returned at
\* its third attempt
C30_Witness ==
    /\ g_pc = "returned"
    /\ calls.begun = 2
    /\ calls.n_requests = 3
    /\ Len(responses) = 4
    /\ \E k \in 1..4 : responses[k].exc
    /\ \E k \in 1..4 : responses[k].code = 429
    /\ \E k \in 1..4 : responses[k].code = 503
    /\ returned = <<"None">>
    /\ n_requests = 7
    /\ n_errors = calls.n_errors + 1

\* a call returns the null of a body that is JSON: None, and no error
\* counted
C30_NullWitness ==
    /\ g_pc = "returned"
    /\ responses[Len(responses)].body = "null"
    /\ returned = <<"None">>
    /\ n_errors = calls.n_errors

====
